---- MODULE Spec2Model ----
(***************************************************************************)
(* Perception-state layer of escrime-vision-system:                        *)
(*   vision/bout_manager.py        BoutManager (bout phase state machine)  *)
(*   vision/guard_line_detector.py GuardLineDetector (lane calibration)    *)
(*   vision/fencer_tracker.py      FencerTracker (two locked identities)   *)
(*   vision/tracker.py             CentroidTracker (generic id tracker)    *)
(*                                                                         *)
(* Numbers.  Pixel coordinates are integers.  Guard-line x positions are   *)
(* multiples of 1/14 px and centroids multiples of 1/2 px, so line         *)
(* positions are kept multiplied by 28 and centroids multiplied by 2; a    *)
(* comparison between the two is made on the common scale.  The wall       *)
(* clock time.time() is the variable now, in whole seconds.                *)
(***************************************************************************)
EXTENDS Integers, Sequences, FiniteSets, TLC

VARIABLES
    \* ---- BoutManager (vision/bout_manager.py) ----
    phase,                \* self.phase
    roi_selected,         \* self.roi_selected
    phase_start_time,     \* self.phase_start_time
    last_frame_box,       \* self.last_frame_box
    smoothed_frame_box,   \* self.smoothed_frame_box
    guard_line_detector,  \* self.guard_line_detector (a GuardLineDetector)
    \* history of the calibration: for each line, the offset of the most
    \* recent adjust_guard_line that moved it since the region was last set
    last_offset,
    \* ---- environment ----
    now,                  \* time.time()
    \* ---- FencerTracker (vision/fencer_tracker.py) ----
    initialized,          \* self.initialized
    fencers,              \* self.fencers: id -> TrackedFencer
    frame_count,          \* self.frame_count
    \* history of the tracker: for each id that was locked, the number of
    \* consecutive tracking updates that ended without an accepted detection
    updates_without_accept,
    \* ---- CentroidTracker (vision/tracker.py) ----
    next_id,              \* self.next_id
    objects,              \* self.objects: id -> bbox
    centroids,            \* self.centroids: id -> (cx, cy), kept times 2
    disappeared,          \* self.disappeared: id -> frames disappeared
    ct_updates,           \* history: the number of CentroidTracker updates
    \* ---- VisionPipeline (core/pipeline.py) and the files it shares with
    \*      the web server (config/shared_roi.py, shared_guard_lines.py) ----
    roi_signaled,         \* self.roi_signaled
    ROI_FILE,             \* the file manual_roi.json
    GUARD_LINES_FILE,     \* the file guard_lines_state.json
    web_server,           \* the web server's write in progress, if any
    \* history of the frame loop: the calls of signal_roi_selected since the
    \* start or, if later, since the last frame that read no region
    signals_since_absent,
    \* history of the framing: the box of the most recent smooth_frame_box
    \* call (None before the first call and after a call with None)
    smooth_target,
    \* ---- the call that has just returned (NoCall when its caller has taken
    \*      the result): the object before it, the arguments, the result ----
    pre,
    call,
    ret

vars == <<phase, roi_selected, phase_start_time, last_frame_box,
          smoothed_frame_box, guard_line_detector, last_offset, now,
          initialized, fencers, frame_count, updates_without_accept,
          next_id, objects, centroids, disappeared, ct_updates,
          roi_signaled, ROI_FILE, GUARD_LINES_FILE, web_server,
          signals_since_absent, smooth_target, pre, call, ret>>

bm_vars == <<phase, roi_selected, phase_start_time, last_frame_box,
             smoothed_frame_box>>

gld_vars == <<guard_line_detector, last_offset>>

ft_vars == <<initialized, fencers, frame_count, updates_without_accept>>

ct_vars == <<next_id, objects, centroids, disappeared, ct_updates>>

pl_vars == <<roi_signaled, ROI_FILE, GUARD_LINES_FILE, web_server,
            signals_since_absent, smooth_target>>

-----------------------------------------------------------------------------
(* Python values *)

\* None (and every other falsy "no value"): the empty tuple.
None == << >>

Max(a, b) == IF a >= b THEN a ELSE b

Min(a, b) == IF a <= b THEN a ELSE b

Abs(a) == IF a >= 0 THEN a ELSE 0 - a

\* min() and max() of a set of numbers.
SetMin(S) == CHOOSE x \in S : \A y \in S : x <= y

SetMax(S) == CHOOSE x \in S : \A y \in S : x >= y

\* No call is on record.
NoCall == [op |-> "none"]

\* dict.get(key, default)
Get(d, key, default) == IF key \in DOMAIN d THEN d[key] ELSE default

-----------------------------------------------------------------------------
(* Bounds of the model *)

\* The clock is followed up to this many seconds.
MaxTime == 11

\* Largest num_fencers a caller of transition reports.
MaxNumFencers == 2

\* Regions of interest handed to signal_roi_selected / set_roi.
Rois == { <<0, 0, 140, 100>>, <<0, 0, 70, 100>> }

\* Raw frame boxes handed to smooth_frame_box.
FrameBoxes == { <<0, 0, 100, 40>>, <<30, 0, 160, 40>> }

\* Frame boxes of a run of smooth_frame_box calls on its own: from box to
\* box the right edge is 60 or 120 px away and the lower edge 60 px, more
\* than max_frame_velocity.
SmoothBoxes ==
    { <<0, 0, 100, 40>>, <<30, 0, 160, 40>>, <<0, 0, 220, 40>>,
      <<30, 20, 160, 100>> }

\* tracker_info dictionaries: the tracker's output, or a dictionary without the
\* keys transition reads.
TrackerInfos ==
    {<< >>} \cup [initialized : BOOLEAN, num_fencers : 0..MaxNumFencers]

\* Most detections in one frame.
MaxDets == 3

\* Frames followed by the tracker specification.
MaxFrames == 2

\* Bounding boxes of detections, (x1, y1, x2, y2).  With the region
\* (0,0,140,100) the guard lines are at x = 50 and x = 90:
\*   (0,0,20,40)      center-x 10, left of the left line
\*   (30,0,60,40)     center-x 45, left of the left line
\*   (40,0,100,40)    center-x 70, between the lines
\*   (80,0,110,40)    center-x 95, right of the right line
\*   (40,0,160,40)    center-x 100, right of the right line, a wide box whose
\*                    left edge is left of the left line
\*   (120,10,140,60)  center-x 130, right of the right line
Boxes ==
    { <<0, 0, 20, 40>>, <<30, 0, 60, 40>>, <<40, 0, 100, 40>>,
      <<80, 0, 110, 40>>, <<40, 0, 160, 40>>, <<120, 10, 140, 60>> }

\* Detection lists of one frame: {'bbox': ...} dictionaries of different
\* boxes, in any order.
DetectionLists ==
    UNION { {l \in [1..n -> [bbox : Boxes]] :
                \A i, j \in 1..n : l[i] = l[j] => i = j} : n \in 0..MaxDets }

\* Frames followed when the locked fencers are left without detections:
\* the lock, dropout_tolerance + 1 tracking updates, and one more update.
MaxDropoutFrames == 33

\* The region and the frames of such a run: nobody, the right fencer alone
\* (center-x 130), the left fencer alone (center-x 45), both.
DropoutRoi == <<0, 0, 140, 100>>

DropoutBoth ==
    << [bbox |-> <<30, 0, 60, 40>>], [bbox |-> <<120, 10, 140, 60>>] >>

DropoutDetectionLists ==
    { << >>,
      << [bbox |-> <<120, 10, 140, 60>>] >>,
      << [bbox |-> <<30, 0, 60, 40>>] >>,
      DropoutBoth }

\* Frames followed by the frame-loop specification.
MaxLoopFrames == 3

\* Frames followed from before the region is signalled to the start of the
\* bout: a frame that signals the region, one that meets the initialization
\* timeout, the lock, dropout_tolerance tracking updates and one more.
MaxBoutFrames == 34

\* The region of such a run (guard lines at x = 50 and x = 90) and its
\* frames: two people left of the left line (center-x 10 and 45), who cannot
\* be locked; a fencer on the outer side of each line (center-x 45 and 130);
\* the left fencer alone.
BoutRoi == <<0, 0, 140, 100>>

BoutUnlockable ==
    << [bbox |-> <<0, 0, 20, 40>>], [bbox |-> <<30, 0, 60, 40>>] >>

BoutBoth ==
    << [bbox |-> <<30, 0, 60, 40>>], [bbox |-> <<120, 10, 140, 60>>] >>

BoutLeftOnly == << [bbox |-> <<30, 0, 60, 40>>] >>

\* Frames followed while the web server changes the region and the
\* adjustments.
MaxRegionFrames == 4

\* Frames followed when the region is saved once and stays: the first
\* StartSettleFrames frames show either pair of BoutUnlockable and BoutBoth,
\* every later one the two fencers of BoutBoth.
MaxStartFrames == 5

StartSettleFrames == 2

\* The offsets the web server gives the left line in these runs: none (the
\* offset is kept) or 50 px.
RegionOffsets == { << >>, <<50>> }

\* Frames of these runs: nobody, and a fencer on the outer side of each
\* guard line of both regions of Rois.
RegionDetectionLists ==
    { << >>,
      << [bbox |-> <<0, 0, 20, 40>>], [bbox |-> <<100, 0, 160, 40>>] >> }

\* Frames of the loop: nobody; a left fencer with a wide right fencer
\* (frame box reaching x = 176); the same left fencer with the right fencer
\* drawn in (frame box reaching x = 110); a lone fencer.
LoopDetectionLists ==
    { << >>,
      << [bbox |-> <<0, 0, 20, 40>>], [bbox |-> <<40, 0, 160, 40>>] >>,
      << [bbox |-> <<0, 0, 20, 40>>], [bbox |-> <<40, 0, 100, 40>>] >>,
      << [bbox |-> <<0, 0, 20, 40>>] >> }

\* CentroidTracker: this many updates are followed, and a frame holds at
\* most this many detections.
MaxCentroidUpdates == 2

MaxCentroidDets == 2

\* Boxes of CentroidTracker detections, all on one line: center-x 5, 20 and
\* 50 (within max_distance of one another) and 110 (out of reach of all of
\* them).
CentroidBoxes ==
    { <<0, 0, 10, 20>>, <<10, 0, 30, 20>>, <<40, 0, 60, 20>>,
      <<100, 0, 120, 20>> }

CentroidDetectionLists ==
    UNION { {l \in [1..n -> [bbox : CentroidBoxes]] :
                \A i, j \in 1..n : l[i] = l[j] => i = j}
            : n \in 0..MaxCentroidDets }

\* The long run of the generic tracker: enough updates for an object to
\* be absent for more than max_disappeared of them after its registration.
MaxCentroidDropoutUpdates == 13

\* Its frames: nothing, one object, another one out of the first one's reach.
CentroidDropoutLists ==
    { << >>, <<[bbox |-> <<10, 0, 30, 20>>]>>, <<[bbox |-> <<100, 0, 120, 20>>]>> }

\* Frames followed when the locked fencers close in on each other: the lock
\* and two tracking updates.
MaxPassFrames == 3

\* The boxes of such a run, all at one height, in the region (0,0,140,100)
\* with guard lines at x = 50 and x = 90: center-x 45 and 130 (the two
\* fencers at the lock), 80 and 180.
PassBoxes ==
    { <<30, 0, 60, 40>>, <<120, 0, 140, 40>>, <<65, 0, 95, 40>>,
      <<165, 0, 195, 40>> }

PassBoth == << [bbox |-> <<30, 0, 60, 40>>], [bbox |-> <<120, 0, 140, 40>>] >>

\* Its frames: no, one or two different detections, in any order.
PassDetectionLists ==
    UNION { {l \in [1..n -> [bbox : PassBoxes]] :
                \A i, j \in 1..n : l[i] = l[j] => i = j} : n \in 0..2 }

\* Frames followed when the fencers are validated on their guard lines: the
\* lock, dropout_tolerance + 1 updates in which fencer 2 is not seen, and
\* one more.
MaxGuardFrames == 33

\* The region of such a run; its guard lines are at x = 100 and x = 180, and
\* feet within 20 px of a line are on it.
GuardRoi == <<0, 0, 280, 100>>

\* Its boxes:
\*   (40,0,100,40)   left fencer: center-x 70, feet on the left line
\*   (50,0,110,40)   the same moved by 10: IoU 50/70 with the first
\*   (60,0,120,40)   the same moved by 20: IoU 40/80 = 1/2 with the first,
\*                   feet at the edge of the left line's tolerance
\*   (170,0,200,40)  right fencer: center-x 185, feet at the edge of the
\*                   right line's tolerance
\*   (175,0,205,40)  the same moved by 5: feet off the right line
GuardLeft == [bbox |-> <<40, 0, 100, 40>>]

GuardLeftMoved == [bbox |-> <<50, 0, 110, 40>>]

GuardLeftHalf == [bbox |-> <<60, 0, 120, 40>>]

GuardRight == [bbox |-> <<170, 0, 200, 40>>]

GuardRightOff == [bbox |-> <<175, 0, 205, 40>>]

\* The frames the tracker is updated with after the lock (fencer 2 is not
\* seen again), and the frames the fencers are validated against.
GuardUpdateLists == { <<GuardLeft>>, <<GuardLeftMoved>> }

GuardValidateLists ==
    { << >>, <<GuardLeft>>, <<GuardRight>>, <<GuardLeft, GuardRight>>,
      <<GuardRight, GuardLeftMoved>>, <<GuardLeftHalf, GuardRight>>,
      <<GuardLeftHalf, GuardLeft>>, <<GuardLeft, GuardRightOff>> }

\* Offsets (px) handed to adjust_guard_line.
Offsets == {0, 50}

\* Tilt factors handed to adjust_guard_line (1 is 1.0, no tilt).
Tilts == {1, 2}

\* Line ids handed to adjust_guard_line: the three lines and an id it does
\* not know.
AdjustLineIds == {"left", "center", "right", "top"}

\* Regions of the calibration runs: the two of Rois and a short one that
\* does not start at x = 0 (guard lines at x = 24 and x = 32, both within
\* the tolerance of every x of the region).
CalibrationRois == Rois \cup { <<14, 0, 42, 100>> }

\* Boxes classified against the guard lines, by their feet (right edge):
\*   x = 30   at the edge of the left line's tolerance for (0,0,140,100),
\*            within it for the two other regions
\*   x = 35   within the tolerance of both lines of (0,0,70,100), at the
\*            same distance from each
\*   x = 60   on the left line of (0,0,140,100), on the right one of
\*            (0,0,70,100), out of the short region
\*   x = 95   on the right line of (0,0,140,100), out of the two others
\*   x = 160  out of every region
ClassifyBoxes ==
    { <<10, 0, 30, 40>>, <<15, 0, 35, 40>>, <<40, 0, 60, 40>>,
      <<75, 0, 95, 40>>, <<140, 0, 160, 40>> }

\* Most detections in a classified frame.
MaxClassifyDets == 2

ClassifyLists ==
    UNION { {l \in [1..n -> [bbox : ClassifyBoxes]] :
                \A i, j \in 1..n : l[i] = l[j] => i = j}
            : n \in 0..MaxClassifyDets }

-----------------------------------------------------------------------------
(* BoutPhase, bout_manager.py:33-39 *)

WAITING == "waiting"

ROI_VALIDATION == "roi_validation"

INITIALIZING == "initializing"

BOUT_ACTIVE == "bout_active"

BOUT_FINISHED == "bout_finished"

BoutPhase == {WAITING, ROI_VALIDATION, INITIALIZING, BOUT_ACTIVE, BOUT_FINISHED}

\* BoutManager.__init__ defaults (main.py constructs BoutManager()).
initialization_duration == 5

max_frame_velocity == 50

\* The dwell in BOUT_FINISHED, bout_manager.py:143.
finished_dwell == 2

\* NUM_FENCERS of the WAITING test, bout_manager.py:112.
min_fencers_to_initialize == 2

-----------------------------------------------------------------------------
(* GuardLineDetector, guard_line_detector.py *)

\* GuardLineDetector.__init__: nothing configured.  Positions, once set, are
\* kept times 28.
GuardLineDetector_init ==
    [ piste_roi               |-> None,
      pixels_per_meter        |-> None,
      guard_line_left_x_calc  |-> None,
      guard_line_right_x_calc |-> None,
      center_x_calc           |-> None,
      guard_line_left_x       |-> None,
      guard_line_right_x      |-> None,
      center_x                |-> None,
      left_tilt               |-> 1,
      right_tilt              |-> 1,
      center_tilt             |-> 1,
      guard_line_tolerance    |-> 20 ]

\* An Optional[float] that is set: a one-element tuple <<x>>; its value.
Some(x) == <<x>>

val(o) == o[1]

\* The three lines adjust_guard_line knows.
LineIds == {"left", "center", "right"}

\* No line has been moved since the region was set.
no_offsets == [l \in LineIds |-> None]

\* Variant of set_roi: the adjusted positions and the tilts of a region
\* already set are kept.
set_roi_keeping_adjustments(gld, roi) ==
    LET x1 == roi[1]
        x2 == roi[3]
        piste_length_pixels == x2 - x1
        center_x_calc == 28 * x1 + 14 * piste_length_pixels
        guard_line_left_x_calc == 28 * x1 + 10 * piste_length_pixels
        guard_line_right_x_calc == 28 * x1 + 18 * piste_length_pixels
        first == gld.piste_roi = None
    IN  [ gld EXCEPT
            !.piste_roi               = roi,
            !.pixels_per_meter        = Some(2 * piste_length_pixels),
            !.center_x_calc           = Some(center_x_calc),
            !.guard_line_left_x_calc  = Some(guard_line_left_x_calc),
            !.guard_line_right_x_calc = Some(guard_line_right_x_calc),
            !.center_x           = IF first THEN Some(center_x_calc) ELSE @,
            !.guard_line_left_x  = IF first THEN Some(guard_line_left_x_calc)
                                   ELSE @,
            !.guard_line_right_x = IF first THEN Some(guard_line_right_x_calc)
                                   ELSE @ ]

\* Variant of set_roi: the positions are measured from x = 0.
set_roi_from_origin(gld, roi) ==
    LET x2 == roi[3]
        piste_length_pixels == x2 - roi[1]
    IN  [ gld EXCEPT
            !.piste_roi               = roi,
            !.pixels_per_meter        = Some(2 * piste_length_pixels),
            !.center_x_calc           = Some(14 * piste_length_pixels),
            !.guard_line_left_x_calc  = Some(10 * piste_length_pixels),
            !.guard_line_right_x_calc = Some(18 * piste_length_pixels),
            !.center_x                = Some(14 * piste_length_pixels),
            !.guard_line_left_x       = Some(10 * piste_length_pixels),
            !.guard_line_right_x      = Some(18 * piste_length_pixels),
            !.left_tilt               = 1,
            !.right_tilt              = 1,
            !.center_tilt             = 1 ]

\* GuardLineDetector.set_roi(roi): the detector after the call.
\* x1 + (k/14) * (x2 - x1), times 28, is 28*x1 + 2*k*(x2 - x1).
set_roi(gld, roi) ==
    LET x1 == roi[1]
        x2 == roi[3]
        piste_length_pixels == x2 - x1
        center_x_calc == 28 * x1 + 14 * piste_length_pixels
        guard_line_left_x_calc == 28 * x1 + 10 * piste_length_pixels
        guard_line_right_x_calc == 28 * x1 + 18 * piste_length_pixels
    IN  [ gld EXCEPT
            !.piste_roi               = roi,
            !.pixels_per_meter        = Some(2 * piste_length_pixels),
            !.center_x_calc           = Some(center_x_calc),
            !.guard_line_left_x_calc  = Some(guard_line_left_x_calc),
            !.guard_line_right_x_calc = Some(guard_line_right_x_calc),
            !.center_x                = Some(center_x_calc),
            !.guard_line_left_x       = Some(guard_line_left_x_calc),
            !.guard_line_right_x      = Some(guard_line_right_x_calc),
            !.left_tilt               = 1,
            !.right_tilt              = 1,
            !.center_tilt             = 1 ]

\* Variant of adjust_guard_line: the offset is added to the line's present
\* position.
adjust_guard_line_cumulative(gld, line_id, offset_x, tilt) ==
    IF line_id = "left" /\ gld.guard_line_left_x_calc # None
    THEN [gld EXCEPT
            !.guard_line_left_x =
                Some(val(gld.guard_line_left_x) + 28 * offset_x),
            !.left_tilt = tilt]
    ELSE IF line_id = "right" /\ gld.guard_line_right_x_calc # None
    THEN [gld EXCEPT
            !.guard_line_right_x =
                Some(val(gld.guard_line_right_x) + 28 * offset_x),
            !.right_tilt = tilt]
    ELSE IF line_id = "center" /\ gld.center_x_calc # None
    THEN [gld EXCEPT
            !.center_x = Some(val(gld.center_x) + 28 * offset_x),
            !.center_tilt = tilt]
    ELSE gld

\* Variant of adjust_guard_line: the tilt is given to the three lines.
adjust_guard_line_shared_tilt(gld, line_id, offset_x, tilt) ==
    IF line_id = "left" /\ gld.guard_line_left_x_calc # None
    THEN [gld EXCEPT
            !.guard_line_left_x =
                Some(val(gld.guard_line_left_x_calc) + 28 * offset_x),
            !.left_tilt = tilt, !.right_tilt = tilt, !.center_tilt = tilt]
    ELSE IF line_id = "right" /\ gld.guard_line_right_x_calc # None
    THEN [gld EXCEPT
            !.guard_line_right_x =
                Some(val(gld.guard_line_right_x_calc) + 28 * offset_x),
            !.left_tilt = tilt, !.right_tilt = tilt, !.center_tilt = tilt]
    ELSE IF line_id = "center" /\ gld.center_x_calc # None
    THEN [gld EXCEPT
            !.center_x = Some(val(gld.center_x_calc) + 28 * offset_x),
            !.left_tilt = tilt, !.right_tilt = tilt, !.center_tilt = tilt]
    ELSE gld

\* GuardLineDetector.adjust_guard_line(line_id, offset_x, tilt): the detector
\* after the call.
adjust_guard_line(gld, line_id, offset_x, tilt) ==
    IF line_id = "left" /\ gld.guard_line_left_x_calc # None
    THEN [gld EXCEPT
            !.guard_line_left_x =
                Some(val(gld.guard_line_left_x_calc) + 28 * offset_x),
            !.left_tilt = tilt]
    ELSE IF line_id = "right" /\ gld.guard_line_right_x_calc # None
    THEN [gld EXCEPT
            !.guard_line_right_x =
                Some(val(gld.guard_line_right_x_calc) + 28 * offset_x),
            !.right_tilt = tilt]
    ELSE IF line_id = "center" /\ gld.center_x_calc # None
    THEN [gld EXCEPT
            !.center_x = Some(val(gld.center_x_calc) + 28 * offset_x),
            !.center_tilt = tilt]
    ELSE gld

\* Lines 136-154 for one detection: "left", "right" or "none".  feet_x is
\* the right edge of the box; the left line is tested first.
side_of_right_first(gld, detection) ==
    LET feet_x == detection.bbox[3]
        dist_to_left  == Abs(28 * feet_x - val(gld.guard_line_left_x))
        dist_to_right == Abs(28 * feet_x - val(gld.guard_line_right_x))
    IN  IF feet_x < gld.piste_roi[1] \/ feet_x > gld.piste_roi[3] THEN "none"
        ELSE IF dist_to_right <= 28 * gld.guard_line_tolerance THEN "right"
        ELSE IF dist_to_left <= 28 * gld.guard_line_tolerance THEN "left"
        ELSE "none"

side_of(gld, detection) ==
    LET feet_x == detection.bbox[3]
        dist_to_left  == Abs(28 * feet_x - val(gld.guard_line_left_x))
        dist_to_right == Abs(28 * feet_x - val(gld.guard_line_right_x))
    IN  IF feet_x < gld.piste_roi[1] \/ feet_x > gld.piste_roi[3] THEN "none"
        ELSE IF dist_to_left <= 28 * gld.guard_line_tolerance THEN "left"
        ELSE IF dist_to_right <= 28 * gld.guard_line_tolerance THEN "right"
        ELSE "none"

\* The distance (times 28) of a detection's feet to the line of a side.
dist_to_line(gld, detection, side) ==
    Abs(28 * detection.bbox[3]
        - val(IF side = "left" THEN gld.guard_line_left_x
              ELSE gld.guard_line_right_x))

\* Lines 160-168: the list of a side sorted by distance (a stable sort) and
\* its first element taken; None for an empty list.
closest_on_side(gld, detections, side) ==
    LET fencers_on_side == SelectSeq(detections, LAMBDA d : side_of(gld, d) = side)
    IN  IF Len(fencers_on_side) = 0 THEN None
        ELSE fencers_on_side[
                SetMin({i \in 1..Len(fencers_on_side) :
                    \A j \in 1..Len(fencers_on_side) :
                        dist_to_line(gld, fencers_on_side[i], side)
                            <= dist_to_line(gld, fencers_on_side[j], side)})]

\* GuardLineDetector.detect_on_guard_line(detections): the dictionary
\* returned (without its status text).
detect_on_guard_line(gld, detections) ==
    IF gld.piste_roi = None
    THEN [left |-> None, right |-> None, on_line |-> << >>]
    ELSE [ left    |-> closest_on_side(gld, detections, "left"),
           right   |-> closest_on_side(gld, detections, "right"),
           on_line |-> SelectSeq(detections,
                                 LAMBDA d : side_of(gld, d) # "none") ]

-----------------------------------------------------------------------------
(* BoutManager, bout_manager.py *)

\* The fields of self that transition reads and writes.
self_bm ==
    [ phase            |-> phase,
      phase_start_time |-> phase_start_time,
      roi_selected     |-> roi_selected,
      last_frame_box   |-> last_frame_box ]

\* transition, lines 103-106: the finished signal.
on_bout_finished(s) ==
    [s EXCEPT !.phase = BOUT_FINISHED, !.phase_start_time = now]

\* Variant of ready_to_initialize that forgets the region signal.
ready_to_initialize_any_roi(s, num_fencers) ==
    num_fencers >= min_fencers_to_initialize

\* transition, line 112: the test that leaves WAITING.
ready_to_initialize(s, num_fencers) ==
    s.roi_selected /\ num_fencers >= min_fencers_to_initialize

\* Variant of on_waiting that wires in the declared ROI_VALIDATION phase.
on_waiting_via_validation(s, num_fencers) ==
    IF ready_to_initialize(s, num_fencers)
    THEN [s EXCEPT !.phase = ROI_VALIDATION, !.phase_start_time = now]
    ELSE s

\* transition, lines 108-115.
on_waiting(s, num_fencers) ==
    IF ready_to_initialize(s, num_fencers)
    THEN [s EXCEPT !.phase = INITIALIZING, !.phase_start_time = now]
    ELSE s

\* Variant of on_locked that keeps the smoothing baseline.
on_locked_keep_baseline(s) ==
    [s EXCEPT !.phase = BOUT_ACTIVE, !.phase_start_time = now]

\* transition, lines 120-125: the tracker has locked.
on_locked(s) ==
    [s EXCEPT !.phase = BOUT_ACTIVE, !.phase_start_time = now,
              !.last_frame_box = None]

\* transition, lines 128-132: initialization timed out.
on_timeout(s) ==
    [s EXCEPT !.phase = WAITING, !.phase_start_time = now,
              !.roi_selected = FALSE]

\* Variant of on_initializing whose timeout is initialization_duration itself.
on_initializing_short_timeout(s, init, time_in_phase) ==
    IF init THEN on_locked(s)
    ELSE IF time_in_phase > initialization_duration THEN on_timeout(s)
    ELSE s

\* transition, lines 117-132.
on_initializing(s, init, time_in_phase) ==
    IF init THEN on_locked(s)
    ELSE IF time_in_phase > initialization_duration * 2 THEN on_timeout(s)
    ELSE s

\* Variant of on_bout_active that gives up when fewer than two fencers remain.
on_bout_active_exit_on_loss(s, num_fencers) ==
    IF num_fencers < 2
    THEN [s EXCEPT !.phase = WAITING, !.phase_start_time = now]
    ELSE s

\* transition, lines 134-139.
on_bout_active(s, num_fencers) == s

\* Variant of on_finished that already resets when the dwell is reached.
on_finished_at_dwell(s, time_in_phase) ==
    IF time_in_phase >= finished_dwell
    THEN [s EXCEPT !.phase = WAITING, !.phase_start_time = now,
                   !.last_frame_box = None]
    ELSE s

\* transition, lines 141-147.
on_finished(s, time_in_phase) ==
    IF time_in_phase > finished_dwell
    THEN [s EXCEPT !.phase = WAITING, !.phase_start_time = now,
                   !.last_frame_box = None]
    ELSE s

\* Variant of transition_result that looks at bout_finished after the phase
\* logic has run.
transition_result_finish_last(s, tracker_info, bout_finished) ==
    LET init          == Get(tracker_info, "initialized", FALSE)
        num_fencers   == Get(tracker_info, "num_fencers", 0)
        time_in_phase == now - s.phase_start_time
        r == IF s.phase = WAITING THEN on_waiting(s, num_fencers)
             ELSE IF s.phase = INITIALIZING
                  THEN on_initializing(s, init, time_in_phase)
             ELSE IF s.phase = BOUT_ACTIVE THEN on_bout_active(s, num_fencers)
             ELSE IF s.phase = BOUT_FINISHED THEN on_finished(s, time_in_phase)
             ELSE s
    IN  IF bout_finished THEN on_bout_finished(r) ELSE r

\* transition, lines 99-149: self after the call.
transition_result(s, tracker_info, bout_finished) ==
    LET init          == Get(tracker_info, "initialized", FALSE)
        num_fencers   == Get(tracker_info, "num_fencers", 0)
        time_in_phase == now - s.phase_start_time
    IN  IF bout_finished THEN on_bout_finished(s)
        ELSE IF s.phase = WAITING THEN on_waiting(s, num_fencers)
        ELSE IF s.phase = INITIALIZING
             THEN on_initializing(s, init, time_in_phase)
        ELSE IF s.phase = BOUT_ACTIVE THEN on_bout_active(s, num_fencers)
        ELSE IF s.phase = BOUT_FINISHED THEN on_finished(s, time_in_phase)
        ELSE s

\* BoutManager.transition(tracker_info, bout_finished)
transition(tracker_info, bout_finished) ==
    LET r == transition_result(self_bm, tracker_info, bout_finished)
    IN  /\ call = NoCall
        /\ phase' = r.phase
        /\ phase_start_time' = r.phase_start_time
        /\ roi_selected' = r.roi_selected
        /\ last_frame_box' = r.last_frame_box
        /\ pre' = self_bm
        /\ call' = [op |-> "transition", tracker_info |-> tracker_info,
                    bout_finished |-> bout_finished]
        /\ ret' = r.phase
        /\ UNCHANGED <<smoothed_frame_box, gld_vars, now, ft_vars,
                       ct_vars, pl_vars>>

\* Variant of should_apply_roi_filter_result: the filter is on in every phase
\* but WAITING.
should_apply_roi_filter_unless_waiting(s) == s.phase # WAITING

\* should_apply_roi_filter, line 159: the value returned.
should_apply_roi_filter_result(s) ==
    s.phase \in {INITIALIZING, BOUT_ACTIVE}

\* BoutManager.should_apply_roi_filter()
should_apply_roi_filter ==
    /\ call = NoCall
    /\ pre' = self_bm
    /\ call' = [op |-> "should_apply_roi_filter"]
    /\ ret' = should_apply_roi_filter_result(self_bm)
    /\ UNCHANGED <<bm_vars, gld_vars, now, ft_vars, ct_vars, pl_vars>>

\* BoutManager.signal_roi_selected(roi)
signal_roi_selected(roi) ==
    /\ call = NoCall
    /\ roi_selected' = TRUE
    /\ guard_line_detector' =
          IF roi # None THEN set_roi(guard_line_detector, roi)
          ELSE guard_line_detector
    /\ last_offset' = IF roi # None THEN no_offsets ELSE last_offset
    /\ pre' = self_bm
    /\ call' = [op |-> "signal_roi_selected", roi |-> roi]
    /\ ret' = None
    /\ UNCHANGED <<phase, phase_start_time, last_frame_box,
                   smoothed_frame_box, now, ft_vars, ct_vars, pl_vars>>

\* Variant of clamped_delta without the clamp.
unclamped_delta(new, last) == new - last

\* Variant of clamped_delta that always moves by max_frame_velocity.
full_speed_delta(new, last) ==
    IF new > last THEN max_frame_velocity
    ELSE IF new < last THEN 0 - max_frame_velocity
    ELSE 0

\* smooth_frame_box, lines 190-193: one coordinate's clamped movement.
clamped_delta(new, last) ==
    Max(0 - max_frame_velocity, Min(max_frame_velocity, new - last))

\* smooth_frame_box, lines 186-201: the clamped box.
clamp_box(new_frame_box, last) ==
    [i \in 1..4 |-> last[i] + clamped_delta(new_frame_box[i], last[i])]

\* Variant of smooth_result that clamps the first box against the origin.
smooth_result_clamp_first(new_frame_box, last) ==
    IF new_frame_box = None THEN None
    ELSE clamp_box(new_frame_box,
                   IF last = None THEN [i \in 1..4 |-> 0] ELSE last)

\* smooth_frame_box, lines 174-204: the value returned.
smooth_result(new_frame_box, last) ==
    IF new_frame_box = None THEN None
    ELSE IF last = None THEN new_frame_box
    ELSE clamp_box(new_frame_box, last)

\* BoutManager.smooth_frame_box(new_frame_box)
smooth_frame_box(new_frame_box) ==
    LET r == smooth_result(new_frame_box, last_frame_box)
    IN  /\ call = NoCall
        /\ last_frame_box' = r
        /\ smoothed_frame_box' = r
        /\ pre' = self_bm
        /\ call' = [op |-> "smooth_frame_box", new_frame_box |-> new_frame_box]
        /\ ret' = r
        /\ smooth_target' = new_frame_box
        /\ UNCHANGED <<phase, roi_selected, phase_start_time,
                       gld_vars, now, ft_vars, ct_vars, roi_signaled,
                       ROI_FILE, GUARD_LINES_FILE, web_server,
                       signals_since_absent>>

\* Time passes between two calls.
Tick ==
    /\ call = NoCall
    /\ now < MaxTime
    /\ now' = now + 1
    /\ UNCHANGED <<bm_vars, gld_vars, ft_vars, ct_vars,
                   pl_vars,
                   pre, call, ret>>

\* The caller has taken the result of the last call; the next call can be made.
Returned ==
    /\ call # NoCall
    /\ pre' = None
    /\ call' = NoCall
    /\ ret' = None
    /\ UNCHANGED <<bm_vars, gld_vars, now, ft_vars, ct_vars, pl_vars>>

-----------------------------------------------------------------------------
(* FencerTracker, fencer_tracker.py *)

\* FencerTracker.NUM_FENCERS
NUM_FENCERS == 2

\* FencerTracker.__init__ defaults (main.py constructs FencerTracker()).
max_tracking_distance == 100

dropout_tolerance == 30

\* min_separation of the lock, fencer_tracker.py:321.
lock_min_separation == 80

\* min_separation of a tracking update, fencer_tracker.py:176.
tracking_min_separation == 50

\* The fields of the tracker.
self_ft ==
    [ initialized |-> initialized,
      fencers     |-> fencers,
      frame_count |-> frame_count ]

\* _centroid_from_bbox: ((x1 + x2) / 2, (y1 + y2) / 2), kept times 2.
centroid_from_bbox(bbox) == <<bbox[1] + bbox[3], bbox[2] + bbox[4]>>

\* A returned track {'id', 'bbox', 'centroid'}.
track_of(id, bbox) ==
    [id |-> id, bbox |-> bbox, centroid |-> centroid_from_bbox(bbox)]

\* Variant of TrackedFencer: every fencer is created with id 1.
TrackedFencer_numbered_one(id, bbox) ==
    [ id |-> 1, bbox |-> bbox, centroid |-> centroid_from_bbox(bbox),
      frames_alive |-> 0, frames_since_detection |-> 0 ]

\* TrackedFencer created at the lock, lines 335-341.
TrackedFencer(id, bbox) ==
    [ id |-> id, bbox |-> bbox, centroid |-> centroid_from_bbox(bbox),
      frames_alive |-> 0, frames_since_detection |-> 0 ]

\* sorted(detections, key = bbox[0]): a stable sort, lines 85 and 112.
RECURSIVE sorted_by_left_x(_)
sorted_by_left_x(dets) ==
    IF dets = << >> THEN << >>
    ELSE LET n == Len(dets)
             d == dets[n]
             t == sorted_by_left_x(SubSeq(dets, 1, n - 1))
             k == Cardinality({i \in 1..Len(t) : t[i].bbox[1] <= d.bbox[1]})
         IN  SubSeq(t, 1, k) \o <<d>> \o SubSeq(t, k + 1, Len(t))

\* Variant of provisional_tracks that numbers the detections as they come.
provisional_tracks_input_order(dets) ==
    [i \in 1..Len(dets) |-> track_of(100 + (i - 1), dets[i].bbox)]

\* Provisional tracks 100, 101, ..., lines 84-95 and 111-121.
provisional_tracks(dets) ==
    LET t == sorted_by_left_x(dets)
    IN  [i \in 1..Len(t) |-> track_of(100 + (i - 1), t[i].bbox)]

\* The return of _update_initialization when no lock is made, lines 97-102
\* and 123-128 (the status text is left out).
waiting_result(ft, dets) ==
    [ self   |-> ft,
      tracks |-> provisional_tracks(dets),
      info   |-> [ initialized |-> FALSE, num_fencers |-> Len(dets),
                   frame_box |-> None ] ]

\* Variant of _calculate_frame_box: the padding is taken off the union
\* instead of being added to it.
calculate_frame_box_padded_inwards(fs) ==
    IF DOMAIN fs = {} THEN None
    ELSE LET x1_min == SetMin({fs[i].bbox[1] : i \in DOMAIN fs})
             y1_min == SetMin({fs[i].bbox[2] : i \in DOMAIN fs})
             x2_max == SetMax({fs[i].bbox[3] : i \in DOMAIN fs})
             y2_max == SetMax({fs[i].bbox[4] : i \in DOMAIN fs})
             padding_x == (x2_max - x1_min) \div 10
             padding_y == (y2_max - y1_min) \div 10
         IN  << Max(0, x1_min + padding_x), Max(0, y1_min + padding_y),
                x2_max - padding_x, y2_max - padding_y >>

\* _calculate_frame_box over the locked fencers fs; int(w * 0.1) is w \div 10
\* for the widths that occur (w >= 0).
calculate_frame_box(fs) ==
    IF DOMAIN fs = {} THEN None
    ELSE LET x1_min == SetMin({fs[i].bbox[1] : i \in DOMAIN fs})
             y1_min == SetMin({fs[i].bbox[2] : i \in DOMAIN fs})
             x2_max == SetMax({fs[i].bbox[3] : i \in DOMAIN fs})
             y2_max == SetMax({fs[i].bbox[4] : i \in DOMAIN fs})
             padding_x == (x2_max - x1_min) \div 10
             padding_y == (y2_max - y1_min) \div 10
         IN  << Max(0, x1_min - padding_x), Max(0, y1_min - padding_y),
                x2_max + padding_x, y2_max + padding_y >>

\* The locked fencers as tracks, in dictionary (insertion) order: 1 before 2.
locked_tracks(fs) ==
    LET ids == IF DOMAIN fs = {1, 2} THEN <<1, 2>>
               ELSE IF DOMAIN fs = {1} THEN <<1>>
               ELSE IF DOMAIN fs = {2} THEN <<2>>
               ELSE << >>
    IN  [i \in 1..Len(ids) |-> [ id |-> fs[ids[i]].id, bbox |-> fs[ids[i]].bbox,
                                 centroid |-> fs[ids[i]].centroid ]]

\* centroid_x of a detection, times 2 (line 284).
centroid_x(d) == d.bbox[1] + d.bbox[3]

\* max(list, key = center-x): the first of the greatest.
first_max_center(list) ==
    list[SetMin({i \in 1..Len(list) :
                    \A j \in 1..Len(list) : centroid_x(list[j]) <= centroid_x(list[i])})]

\* min(list, key = center-x): the first of the smallest.
first_min_center(list) ==
    list[SetMin({i \in 1..Len(list) :
                    \A j \in 1..Len(list) : centroid_x(list[j]) >= centroid_x(list[i])})]

\* get_best_detection, lines 298-309.  The side is told from the left edge
\* of the first detection of the list.
get_best_detection(detections_list, left_line_x) ==
    IF Len(detections_list) = 1 THEN detections_list[1]
    ELSE IF 28 * detections_list[1].bbox[1] < left_line_x
         THEN first_max_center(detections_list)
         ELSE first_min_center(detections_list)

\* Lines 282-289: the detections left of the left line.
left_side_detections(dets, gld) ==
    SelectSeq(dets, LAMBDA d : 14 * centroid_x(d) < val(gld.guard_line_left_x))

\* Lines 282-289: the detections right of the right line (and not left of
\* the left one).
right_side_detections(dets, gld) ==
    SelectSeq(dets, LAMBDA d :
                /\ ~(14 * centroid_x(d) < val(gld.guard_line_left_x))
                /\ 14 * centroid_x(d) > val(gld.guard_line_right_x))

\* Lines 320-323: the two chosen detections are too close to lock.
too_close(d1, d2) ==
    Abs(centroid_x(d2) - centroid_x(d1)) < 2 * lock_min_separation

\* _initialize_with_guard_lines: None when no lock is made, else the result
\* of update.
initialize_with_guard_lines(ft, dets, gld) ==
    IF gld.piste_roi = None THEN None
    ELSE LET left_side  == left_side_detections(dets, gld)
             right_side == right_side_detections(dets, gld)
         IN  IF Len(left_side) < 1 \/ Len(right_side) < 1 THEN None
             ELSE LET fencer1_detection ==
                          get_best_detection(left_side, val(gld.guard_line_left_x))
                      fencer2_detection ==
                          get_best_detection(right_side, val(gld.guard_line_left_x))
                  IN  IF too_close(fencer1_detection, fencer2_detection)
                      THEN None
                      ELSE LET fs == (1 :> TrackedFencer(1, fencer1_detection.bbox))
                                     @@ (2 :> TrackedFencer(2, fencer2_detection.bbox))
                                     @@ ft.fencers
                           IN  [ self   |-> [ft EXCEPT !.fencers = fs,
                                                       !.initialized = TRUE],
                                 tracks |-> locked_tracks(fs),
                                 info   |-> [ initialized |-> TRUE,
                                              num_fencers |-> Len(locked_tracks(fs)),
                                              frame_box |-> calculate_frame_box(fs) ] ]

\* _update_initialization, lines 76-128.
update_initialization(ft, dets, gld) ==
    IF Len(dets) < NUM_FENCERS THEN waiting_result(ft, dets)
    ELSE LET result == IF gld # None /\ gld.piste_roi # None
                       THEN initialize_with_guard_lines(ft, dets, gld)
                       ELSE None
         IN  IF result # None THEN result ELSE waiting_result(ft, dets)

\* Squared distance of two centroids (both times 2, so the square is times 4).
dist_sq(c, d) == (c[1] - d[1]) * (c[1] - d[1]) + (c[2] - d[2]) * (c[2] - d[2])

\* Lines 189-194 and 197-202: the detection is accepted for the track.
accept_detection(m, track_id, idx, dets) ==
    [m EXCEPT
        !.fencers[track_id].bbox = dets[idx].bbox,
        !.fencers[track_id].centroid = centroid_from_bbox(dets[idx].bbox),
        !.fencers[track_id].frames_since_detection = 0,
        !.fencers[track_id].frames_alive = @ + 1,
        !.assigned_tracks = @ \cup {track_id},
        !.assigned_detections = @ \cup {idx}]

\* Variant of reject_detection that counts the rejection on the other fencer.
reject_detection_counts_other(m, track_id) ==
    [m EXCEPT !.fencers[IF track_id = 1 THEN 2 ELSE 1].frames_since_detection
                  = @ + 1]

\* Lines 183-186: the detection is rejected, it would overlap the other fencer.
reject_detection(m, track_id) ==
    [m EXCEPT !.fencers[track_id].frames_since_detection = @ + 1]

\* Variant of would_overlap that rejects only a detection at the very x of
\* the other fencer.
would_overlap_same_x(centroid, other_fencer) ==
    centroid[1] = other_fencer.centroid[1]

\* Lines 177-183: the detection would bring the track within min_separation
\* of the other fencer, measured on x.
would_overlap(centroid, other_fencer) ==
    Abs(centroid[1] - other_fencer.centroid[1]) < 2 * tracking_min_separation

\* Lines 158-202: the body of the matching loop for one track.
\* m = [fencers, assigned_tracks, assigned_detections, stopped].
match_track(m, track_id, dets) ==
    LET unassigned_detections ==
            {i \in 1..Len(dets) : i \notin m.assigned_detections}
    IN  IF m.stopped \/ unassigned_detections = {}
        THEN [m EXCEPT !.stopped = TRUE]
        ELSE
          LET fencer == m.fencers[track_id]
              d(i)   == dist_sq(fencer.centroid, centroid_from_bbox(dets[i].bbox))
              \* np.argmin: the first index of the smallest distance
              closest_detection_idx ==
                  SetMin({i \in unassigned_detections :
                             \A j \in unassigned_detections : d(i) <= d(j)})
              centroid == centroid_from_bbox(dets[closest_detection_idx].bbox)
              other_fencer_id == IF track_id = 1 THEN 2 ELSE 1
          IN  IF d(closest_detection_idx)
                     <= (2 * max_tracking_distance) * (2 * max_tracking_distance)
              THEN IF other_fencer_id \in DOMAIN m.fencers
                   THEN IF would_overlap(centroid, m.fencers[other_fencer_id])
                        THEN reject_detection(m, track_id)
                        ELSE accept_detection(m, track_id,
                                              closest_detection_idx, dets)
                   ELSE accept_detection(m, track_id, closest_detection_idx, dets)
              ELSE m

\* Lines 205-208: a track without an accepted detection is marked missing.
mark_missing(fs, assigned_tracks) ==
    [id \in DOMAIN fs |->
        IF id \in assigned_tracks THEN fs[id]
        ELSE [fs[id] EXCEPT !.frames_since_detection = @ + 1,
                            !.frames_alive = @ + 1]]

\* Lines 211-214: tracks missing for too long are removed.
remove_lost(fs) ==
    [id \in {i \in DOMAIN fs :
                ~(fs[i].frames_since_detection > dropout_tolerance)} |-> fs[id]]

\* Variant of other_tracks that numbers the detections no track took from 1.
other_tracks_from_one(dets, assigned_detections) ==
    LET idxs == {i \in 1..Len(dets) : i \notin assigned_detections}
        nth(k) == CHOOSE i \in idxs : Cardinality({j \in idxs : j < i}) = k - 1
    IN  [k \in 1..Cardinality(idxs) |-> track_of(nth(k), dets[nth(k)].bbox)]

\* Lines 233-242: detections no track took, as provisional tracks 100 + index.
other_tracks(dets, assigned_detections) ==
    LET idxs == {i \in 1..Len(dets) : i \notin assigned_detections}
        nth(k) == CHOOSE i \in idxs : Cardinality({j \in idxs : j < i}) = k - 1
    IN  [k \in 1..Cardinality(idxs) |->
            track_of(100 + (nth(k) - 1), dets[nth(k)].bbox)]

\* _update_tracking, lines 130-255 (the status text is left out).
update_tracking(ft, dets) ==
    LET m0 == [ fencers |-> ft.fencers, assigned_tracks |-> {},
                assigned_detections |-> {},
                stopped |-> ~(Len(dets) > 0 /\ DOMAIN ft.fencers # {}) ]
        m1 == IF ~m0.stopped /\ 1 \in DOMAIN ft.fencers
              THEN match_track(m0, 1, dets) ELSE m0
        m2 == IF ~m1.stopped /\ 2 \in DOMAIN ft.fencers
              THEN match_track(m1, 2, dets) ELSE m1
        fs == remove_lost(mark_missing(m2.fencers, m2.assigned_tracks))
    IN  [ self   |-> [ft EXCEPT !.fencers = fs],
          tracks |-> locked_tracks(fs) \o other_tracks(dets, m2.assigned_detections),
          info   |-> [ initialized |-> TRUE,
                       num_fencers |-> Len(locked_tracks(fs)),
                       frame_box |-> calculate_frame_box(fs) ] ]

\* FencerTracker.update, lines 56-74: the result [self, tracks, info].
update_result(ft, dets, gld) ==
    LET counted == [ft EXCEPT !.frame_count = @ + 1]
    IN  IF ~counted.initialized
        THEN update_initialization(counted, dets, gld)
        ELSE update_tracking(counted, dets)

\* The history of accepted updates after an update with result r: a locked
\* fencer has an accepted update exactly when it leaves the update with
\* frames_since_detection = 0 (lines 191 and 199, against 186 and 207).
without_accept_after(r) ==
    IF initialized
    THEN [id \in DOMAIN updates_without_accept |->
            IF id \notin DOMAIN fencers
            THEN updates_without_accept[id]
            ELSE IF /\ id \in DOMAIN r.self.fencers
                    /\ r.self.fencers[id].frames_since_detection = 0
                 THEN 0
                 ELSE updates_without_accept[id] + 1]
    ELSE IF r.self.initialized
         THEN [id \in DOMAIN r.self.fencers |-> 0]
         ELSE updates_without_accept

\* FencerTracker.update(detections, guard_line_detector)
update(detections, gld) ==
    LET r == update_result(self_ft, detections, gld)
    IN  /\ call = NoCall
        /\ initialized' = r.self.initialized
        /\ fencers' = r.self.fencers
        /\ frame_count' = r.self.frame_count
        /\ pre' = self_ft
        /\ call' = [op |-> "update", detections |-> detections,
                    guard_line_detector |-> gld]
        /\ ret' = [tracks |-> r.tracks, info |-> r.info]
        /\ updates_without_accept' = without_accept_after(r)
        /\ UNCHANGED <<bm_vars, gld_vars, now, ct_vars, pl_vars>>

\* Variant of _bboxes_overlap_significantly: IoU >= threshold.
bboxes_overlap_at_least_half(bbox1, bbox2) ==
    LET xi1 == Max(bbox1[1], bbox2[1])
        yi1 == Max(bbox1[2], bbox2[2])
        xi2 == Min(bbox1[3], bbox2[3])
        yi2 == Min(bbox1[4], bbox2[4])
        intersection == (xi2 - xi1) * (yi2 - yi1)
        area1 == (bbox1[3] - bbox1[1]) * (bbox1[4] - bbox1[2])
        area2 == (bbox2[3] - bbox2[1]) * (bbox2[4] - bbox2[2])
        union == area1 + area2 - intersection
    IN  IF xi2 < xi1 \/ yi2 < yi1 THEN FALSE
        ELSE IF union > 0 THEN 2 * intersection >= union
        ELSE FALSE

\* _bboxes_overlap_significantly(bbox1, bbox2) with threshold = 0.5, lines
\* 482-514: intersection / union > 1/2 is 2 * intersection > union, and an
\* IoU of 0 stands for an empty union.
bboxes_overlap_significantly(bbox1, bbox2) ==
    LET xi1 == Max(bbox1[1], bbox2[1])
        yi1 == Max(bbox1[2], bbox2[2])
        xi2 == Min(bbox1[3], bbox2[3])
        yi2 == Min(bbox1[4], bbox2[4])
        intersection == (xi2 - xi1) * (yi2 - yi1)
        area1 == (bbox1[3] - bbox1[1]) * (bbox1[4] - bbox1[2])
        area2 == (bbox2[3] - bbox2[1]) * (bbox2[4] - bbox2[2])
        union == area1 + area2 - intersection
    IN  IF xi2 < xi1 \/ yi2 < yi1 THEN FALSE
        ELSE IF union > 0 THEN 2 * intersection > union
        ELSE FALSE

\* The dictionary validate_fencers_on_guard_lines returns when it validates
\* nothing (lines 423-438).
not_validated ==
    [ fencer_1_on_guard |-> FALSE, fencer_2_on_guard |-> FALSE,
      both_on_guard |-> FALSE ]

\* Variant of validate_fencers_on_guard_lines: the fencer found on its line
\* is moved onto the detection.
validate_and_follow(ft, gld, current_detections) ==
    LET guard_result == detect_on_guard_line(gld, current_detections)
    IN  IF ~(ft.initialized /\ DOMAIN ft.fencers = {1, 2}
             /\ Len(current_detections) > 0)
        THEN [self |-> ft, guard_line_detector |-> gld, result |-> not_validated]
        ELSE LET fencer_1_on_guard ==
                     /\ guard_result.left # None
                     /\ bboxes_overlap_significantly(ft.fencers[1].bbox,
                                                     guard_result.left.bbox)
                 fencer_2_on_guard ==
                     /\ guard_result.right # None
                     /\ bboxes_overlap_significantly(ft.fencers[2].bbox,
                                                     guard_result.right.bbox)
             IN  [ self |-> IF fencer_1_on_guard
                            THEN [ft EXCEPT !.fencers[1].bbox =
                                                guard_result.left.bbox]
                            ELSE ft,
                   guard_line_detector |-> gld,
                   result |-> [ fencer_1_on_guard |-> fencer_1_on_guard,
                                fencer_2_on_guard |-> fencer_2_on_guard,
                                both_on_guard |->
                                    fencer_1_on_guard /\ fencer_2_on_guard ] ]

\* validate_fencers_on_guard_lines(guard_line_detector, current_detections),
\* lines 402-480: [self, guard_line_detector, result], the tracker and the
\* calibration after the call and the dictionary returned (without its
\* status text).  No line of it, or of detect_on_guard_line, assigns to a
\* field of either object, and the lists it sorts are its own.
validate_fencers_on_guard_lines(ft, gld, current_detections) ==
    IF ~ft.initialized \/ DOMAIN ft.fencers = {}
           \/ Cardinality(DOMAIN ft.fencers) < 2
    THEN [self |-> ft, guard_line_detector |-> gld, result |-> not_validated]
    ELSE IF Len(current_detections) = 0
    THEN [self |-> ft, guard_line_detector |-> gld, result |-> not_validated]
    ELSE LET guard_result == detect_on_guard_line(gld, current_detections)
             left_detection == guard_result.left
             right_detection == guard_result.right
             fencer_1_on_guard ==
                 /\ 1 \in DOMAIN ft.fencers
                 /\ left_detection # None
                 /\ bboxes_overlap_significantly(ft.fencers[1].bbox,
                                                 left_detection.bbox)
             fencer_2_on_guard ==
                 /\ 2 \in DOMAIN ft.fencers
                 /\ right_detection # None
                 /\ bboxes_overlap_significantly(ft.fencers[2].bbox,
                                                 right_detection.bbox)
         IN  [ self |-> ft,
               guard_line_detector |-> gld,
               result |-> [ fencer_1_on_guard |-> fencer_1_on_guard,
                            fencer_2_on_guard |-> fencer_2_on_guard,
                            both_on_guard |->
                                fencer_1_on_guard /\ fencer_2_on_guard ] ]

\* FencerTracker.validate_fencers_on_guard_lines called with the bout
\* manager's calibration, as the frame loop does (pipeline.py:73-76).
validate(current_detections) ==
    LET v == validate_fencers_on_guard_lines(self_ft, guard_line_detector,
                                             current_detections)
    IN  /\ call = NoCall
        /\ initialized' = v.self.initialized
        /\ fencers' = v.self.fencers
        /\ frame_count' = v.self.frame_count
        /\ guard_line_detector' = v.guard_line_detector
        /\ UNCHANGED last_offset
        /\ pre' = [ self |-> self_ft,
                    guard_line_detector |-> guard_line_detector ]
        /\ call' = [op |-> "validate_fencers_on_guard_lines",
                    current_detections |-> current_detections]
        /\ ret' = v.result
        /\ UNCHANGED <<bm_vars, now, updates_without_accept, ct_vars, pl_vars>>

\* GuardLineDetector.detect_on_guard_line(detections) on the calibration.
classify(detections) ==
    /\ call = NoCall
    /\ pre' = guard_line_detector
    /\ call' = [op |-> "detect_on_guard_line", detections |-> detections]
    /\ ret' = detect_on_guard_line(guard_line_detector, detections)
    /\ UNCHANGED <<bm_vars, gld_vars, now, ft_vars, ct_vars, pl_vars>>

\* The calibration is given a region (GuardLineDetector.set_roi).
calibrate(roi) ==
    /\ call = NoCall
    /\ guard_line_detector' = set_roi(guard_line_detector, roi)
    /\ last_offset' = no_offsets
    /\ pre' = guard_line_detector
    /\ call' = [op |-> "set_roi", roi |-> roi]
    /\ ret' = None
    /\ UNCHANGED <<bm_vars, now, ft_vars, ct_vars, pl_vars>>

\* A guard line is moved (GuardLineDetector.adjust_guard_line).
adjust(line_id, offset_x, tilt) ==
    /\ call = NoCall
    /\ guard_line_detector' =
          adjust_guard_line(guard_line_detector, line_id, offset_x, tilt)
    /\ last_offset' =
          IF line_id \in LineIds /\ guard_line_detector.piste_roi # None
          THEN [last_offset EXCEPT ![line_id] = Some(offset_x)]
          ELSE last_offset
    /\ pre' = guard_line_detector
    /\ call' = [op |-> "adjust_guard_line", line_id |-> line_id,
                offset_x |-> offset_x, tilt |-> tilt]
    /\ ret' = None
    /\ UNCHANGED <<bm_vars, now, ft_vars, ct_vars, pl_vars>>

-----------------------------------------------------------------------------
(* CentroidTracker, tracker.py *)

\* CentroidTracker.__init__ defaults.
max_disappeared == 10

max_distance == 50

\* The fields of the tracker.
self_ct ==
    [ next_id     |-> next_id,
      objects     |-> objects,
      centroids   |-> centroids,
      disappeared |-> disappeared ]

\* d[k] = v and del d[k] on a dictionary.  Ids are handed out in ascending
\* order, so the insertion order of the dictionaries is the order of the ids.
Put(d, k, v) == [i \in DOMAIN d \cup {k} |-> IF i = k THEN v ELSE d[i]]

Del(d, k) == [i \in DOMAIN d \ {k} |-> d[i]]

\* CentroidTracker._centroid_from_bbox, kept times 2.
ct_centroid_from_bbox(bbox) == <<bbox[1] + bbox[3], bbox[2] + bbox[4]>>

\* Variant of register that hands out the lowest id no live object holds.
register_lowest_free(s, bbox) ==
    LET obj_id == SetMin({i \in 1..s.next_id : i \notin DOMAIN s.objects})
    IN  [ next_id     |-> s.next_id + 1,
          objects     |-> Put(s.objects, obj_id, bbox),
          centroids   |-> Put(s.centroids, obj_id, ct_centroid_from_bbox(bbox)),
          disappeared |-> Put(s.disappeared, obj_id, 0) ]

\* CentroidTracker.register(bbox)
register(s, bbox) ==
    [ next_id     |-> s.next_id + 1,
      objects     |-> Put(s.objects, s.next_id, bbox),
      centroids   |-> Put(s.centroids, s.next_id, ct_centroid_from_bbox(bbox)),
      disappeared |-> Put(s.disappeared, s.next_id, 0) ]

\* CentroidTracker.deregister(obj_id)
deregister(s, obj_id) ==
    [ s EXCEPT !.objects     = Del(@, obj_id),
               !.centroids   = Del(@, obj_id),
               !.disappeared = Del(@, obj_id) ]

\* Lines 53-55 and 101-103: one object is marked disappeared, and
\* deregistered when it has been so for more than max_disappeared updates.
mark_disappeared(s, obj_id) ==
    LET t == [s EXCEPT !.disappeared[obj_id] = @ + 1]
    IN  IF t.disappeared[obj_id] > max_disappeared
        THEN deregister(t, obj_id) ELSE t

\* mark_disappeared over a set of objects.
RECURSIVE mark_all_disappeared(_, _)
mark_all_disappeared(s, ids) ==
    IF ids = {} THEN s
    ELSE LET obj_id == SetMin(ids)
         IN  mark_all_disappeared(mark_disappeared(s, obj_id), ids \ {obj_id})

\* The tracks returned, in dictionary order (lines 56-59 and 106-110).
tracks_of(s) ==
    LET ids == DOMAIN s.objects
        nth(k) == CHOOSE i \in ids : Cardinality({j \in ids : j < i}) = k - 1
    IN  [k \in 1..Cardinality(ids) |->
            [id |-> nth(k), bbox |-> s.objects[nth(k)],
             centroid |-> s.centroids[nth(k)]]]

\* D[r, c], squared and times 4 (line 74).
D(s, obj_id, dets, c) ==
    dist_sq(s.centroids[obj_id], ct_centroid_from_bbox(dets[c].bbox))

\* D.min(axis=1) and D.argmin(axis=1) for one row (lines 77-78).
row_min(s, obj_id, dets) == SetMin({D(s, obj_id, dets, c) : c \in 1..Len(dets)})

row_argmin(s, obj_id, dets) ==
    SetMin({c \in 1..Len(dets) : D(s, obj_id, dets, c) = row_min(s, obj_id, dets)})

\* D.min(axis=1).argsort() (line 77): the objects in ascending order of their
\* smallest distance.  numpy's default sort is not a stable one, so rows with
\* the same smallest distance come in any order.
RECURSIVE sorted_rows(_, _, _)
sorted_rows(s, dets, ids) ==
    IF ids = {} THEN { << >> }
    ELSE LET least == SetMin({row_min(s, i, dets) : i \in ids})
             firsts == {i \in ids : row_min(s, i, dets) = least}
         IN  UNION { { <<i>> \o rest : rest \in sorted_rows(s, dets, ids \ {i}) }
                     : i \in firsts }

RowOrders(s, dets) ==
    IF Len(dets) = 0 THEN { << >> } ELSE sorted_rows(s, dets, DOMAIN s.objects)

\* Lines 80-93: the matching loop from position k of rows on.  s0 is the
\* tracker before the update (D is computed once);
\* m = [self, assigned_cols].
RECURSIVE claim_loop(_, _, _, _, _)
claim_loop(m, s0, rows, k, dets) ==
    IF k > Len(rows) THEN m
    ELSE LET obj_id == rows[k]
             c == row_argmin(s0, obj_id, dets)
         IN  IF c \in m.assigned_cols
             THEN claim_loop(m, s0, rows, k + 1, dets)
             ELSE IF D(s0, obj_id, dets, c) > 4 * max_distance * max_distance
             THEN claim_loop(m, s0, rows, k + 1, dets)
             ELSE claim_loop(
                    [ self |-> [m.self EXCEPT
                          !.objects[obj_id] = dets[c].bbox,
                          !.centroids[obj_id] = ct_centroid_from_bbox(dets[c].bbox),
                          !.disappeared[obj_id] = 0],
                      assigned_cols |-> m.assigned_cols \cup {c} ],
                    s0, rows, k + 1, dets)

\* Lines 66-68 and 95-98: the detections from index i on that are not in
\* assigned_cols are registered, in the order of the list.
RECURSIVE register_unassigned(_, _, _, _)
register_unassigned(s, dets, i, assigned_cols) ==
    IF i > Len(dets) THEN s
    ELSE register_unassigned(
            IF i \in assigned_cols THEN s ELSE register(s, dets[i].bbox),
            dets, i + 1, assigned_cols)

\* Lines 70-104: the update of a tracker that holds objects.
match_and_register(s, dets, rows) ==
    LET m == claim_loop([self |-> s, assigned_cols |-> {}], s, rows, 1, dets)
        registered == register_unassigned(m.self, dets, 1, m.assigned_cols)
        \* line 100: every object whose nearest detection has been claimed,
        \* by itself or by another object
        assigned_ids == { obj_id \in DOMAIN s.objects :
                            row_argmin(s, obj_id, dets) \in m.assigned_cols }
    IN  mark_all_disappeared(registered,
                             DOMAIN registered.objects \ assigned_ids)

\* CentroidTracker.update, lines 42-111: self after the call.
ct_update_result(s, dets, rows) ==
    IF Len(dets) = 0 THEN mark_all_disappeared(s, DOMAIN s.disappeared)
    ELSE IF DOMAIN s.objects = {} THEN register_unassigned(s, dets, 1, {})
    ELSE match_and_register(s, dets, rows)

\* CentroidTracker.update(detections); rows is the order argsort gives.
ct_update(detections, rows) ==
    LET r == ct_update_result(self_ct, detections, rows)
    IN  /\ call = NoCall
        /\ next_id' = r.next_id
        /\ objects' = r.objects
        /\ centroids' = r.centroids
        /\ disappeared' = r.disappeared
        /\ ct_updates' = ct_updates + 1
        /\ pre' = self_ct
        /\ call' = [op |-> "ct_update", detections |-> detections,
                    rows |-> rows]
        /\ ret' = tracks_of(r)
        /\ UNCHANGED <<bm_vars, gld_vars, now, ft_vars, pl_vars>>

-----------------------------------------------------------------------------
(* The files shared with the web server: config/shared_roi.py and
   config/shared_guard_lines.py.  The web server and the frame loop are two
   processes; a file is written by open(.., 'w'), which empties it, followed
   by json.dump, and the frame loop can read it in between. *)

\* A file that does not exist, a file emptied by open(.., 'w') whose json
\* text is not written yet, and a file holding the json text of data.
NoFile == [exists |-> FALSE]

EmptyFile == [exists |-> TRUE, complete |-> FALSE]

FileWith(data) == [exists |-> TRUE, complete |-> TRUE, data |-> data]

\* The web server is not writing a file.
Idle == [writing |-> "nothing"]

\* shared_roi.py, lines 15-20: the rectangle set_manual_roi saves, clamped
\* to the 1280 x 720 image.
roi_data(x1, y1, x2, y2) ==
    << Max(0, x1), Max(0, y1), Min(1280, x2), Min(720, y2) >>

\* get_manual_roi(): the rectangle of the file; None when the file does not
\* exist and when json.load fails on its text (the except branch).
get_manual_roi(file) ==
    IF file.exists /\ file.complete THEN file.data ELSE None

\* shared_guard_lines.py, lines 13-20.  Tilts are kept as integers (1 is
\* 1.0).
DEFAULT_STATE ==
    [ left_offset   |-> 0,
      right_offset  |-> 0,
      center_offset |-> 0,
      left_tilt     |-> 1,
      right_tilt    |-> 1,
      center_tilt   |-> 1 ]

\* _ensure_file(): the file after the call.
ensure_file(file) ==
    IF file.exists THEN file ELSE FileWith(DEFAULT_STATE)

\* Lines 42-46 and 64-68: the state read from the file; DEFAULT_STATE when
\* json.load fails on its text.
load_state(file) ==
    IF file.exists /\ file.complete THEN file.data ELSE DEFAULT_STATE

\* set_guard_line_adjustment, lines 49-52: the state written back.
adjusted_state(state, line_id, offset_x, tilt) ==
    LET with_offset ==
            IF offset_x # None
            THEN IF line_id = "left"
                 THEN [state EXCEPT !.left_offset = val(offset_x)]
                 ELSE IF line_id = "right"
                 THEN [state EXCEPT !.right_offset = val(offset_x)]
                 ELSE [state EXCEPT !.center_offset = val(offset_x)]
            ELSE state
    IN  IF tilt # None
        THEN IF line_id = "left"
             THEN [with_offset EXCEPT !.left_tilt = val(tilt)]
             ELSE IF line_id = "right"
             THEN [with_offset EXCEPT !.right_tilt = val(tilt)]
             ELSE [with_offset EXCEPT !.center_tilt = val(tilt)]
        ELSE with_offset

\* The web server is a process of its own: its steps are taken at any point
\* of the frame loop, also between a call of the loop and its return.

\* set_manual_roi(x1, y1, x2, y2) up to line 22: the file is opened for
\* writing.
set_manual_roi(x1, y1, x2, y2) ==
    /\ web_server = Idle
    /\ ROI_FILE' = EmptyFile
    /\ web_server' =
          [writing |-> "ROI_FILE", roi_data |-> roi_data(x1, y1, x2, y2)]
    /\ UNCHANGED <<bm_vars, gld_vars, now, ft_vars, ct_vars, roi_signaled,
                   GUARD_LINES_FILE, signals_since_absent, smooth_target,
                   pre, call, ret>>

\* set_manual_roi, line 23: json.dump and the close of the file.
set_manual_roi_dump ==
    /\ web_server.writing = "ROI_FILE"
    /\ ROI_FILE' = FileWith(web_server.roi_data)
    /\ web_server' = Idle
    /\ UNCHANGED <<bm_vars, gld_vars, now, ft_vars, ct_vars, roi_signaled,
                   GUARD_LINES_FILE, signals_since_absent, smooth_target,
                   pre, call, ret>>

\* clear_manual_roi(), lines 43-46: the file is removed.
clear_manual_roi ==
    /\ web_server = Idle
    /\ ROI_FILE' = NoFile
    /\ UNCHANGED <<bm_vars, gld_vars, now, ft_vars, ct_vars, roi_signaled,
                   GUARD_LINES_FILE, web_server, signals_since_absent,
                   smooth_target, pre, call, ret>>

\* set_guard_line_adjustment(line_id, offset_x, tilt) up to line 55: the
\* state is read and the file is opened for writing.  offset_x and tilt are
\* None or Some(value).
set_guard_line_adjustment(line_id, offset_x, tilt) ==
    /\ web_server = Idle
    /\ GUARD_LINES_FILE' = EmptyFile
    /\ web_server' =
          [ writing |-> "GUARD_LINES_FILE",
            state   |-> adjusted_state(load_state(ensure_file(GUARD_LINES_FILE)),
                                       line_id, offset_x, tilt) ]
    /\ UNCHANGED <<bm_vars, gld_vars, now, ft_vars, ct_vars, roi_signaled,
                   ROI_FILE, signals_since_absent, smooth_target,
                   pre, call, ret>>

\* set_guard_line_adjustment, line 56: json.dump and the close of the file.
set_guard_line_adjustment_dump ==
    /\ web_server.writing = "GUARD_LINES_FILE"
    /\ GUARD_LINES_FILE' = FileWith(web_server.state)
    /\ web_server' = Idle
    /\ UNCHANGED <<bm_vars, gld_vars, now, ft_vars, ct_vars, roi_signaled,
                   ROI_FILE, signals_since_absent, smooth_target,
                   pre, call, ret>>

-----------------------------------------------------------------------------
(* VisionPipeline.run, pipeline.py: one iteration of the frame loop *)

\* Lines 92-113: the adjustments read from the shared file are applied to
\* the three lines of a calibration that has a region (every value of the
\* file is a number, so each of the three tests is true).
apply_adjustments(gld, adjustments) ==
    IF gld.piste_roi = None THEN gld
    ELSE adjust_guard_line(
            adjust_guard_line(
                adjust_guard_line(gld, "left", adjustments.left_offset,
                                  adjustments.left_tilt),
                "right", adjustments.right_offset, adjustments.right_tilt),
            "center", adjustments.center_offset, adjustments.center_tilt)

\* Variant of should_signal: every frame that sees a region signals it.
should_signal_every_frame(current_roi, signaled) == current_roi # None

\* Line 47: the test made before signal_roi_selected is called.
should_signal(current_roi, signaled) == current_roi # None /\ ~signaled

\* One iteration of the loop for a frame with the given detections.
\*   lines 46-53    the shared region is read; signal_roi_selected is called
\*                  when a region is seen and none has been signalled, and
\*                  roi_signaled follows the region read
\*   line 59        should_apply_roi_filter, handed to the detector
\*   lines 70-80    the tracker is updated with the detections and the bout
\*                  manager's calibration, and transition is given the
\*                  tracker's info (bout_finished is never passed);
\*                  validate_fencers_on_guard_lines, line 73, changes nothing
\*   lines 91-113   the adjustments of the shared file are applied
\*   lines 229-230  smooth_frame_box is given the tracker's frame box
frame(detections) ==
    LET current_roi == get_manual_roi(ROI_FILE)
        signal == should_signal(current_roi, roi_signaled)
        signalled_bm ==
            IF signal THEN [self_bm EXCEPT !.roi_selected = TRUE] ELSE self_bm
        signalled_gld ==
            IF signal THEN set_roi(guard_line_detector, current_roi)
            ELSE guard_line_detector
        apply_roi_filter == should_apply_roi_filter_result(signalled_bm)
        r   == update_result(self_ft, detections, signalled_gld)
        t   == transition_result(signalled_bm, r.info, FALSE)
        adjustments == load_state(ensure_file(GUARD_LINES_FILE))
        raw_frame_box == r.info.frame_box
        frame_box == smooth_result(raw_frame_box, t.last_frame_box)
    IN  /\ call = NoCall
        /\ roi_signaled' = IF current_roi = None THEN FALSE
                           ELSE IF signal THEN TRUE ELSE roi_signaled
        /\ signals_since_absent' =
              IF current_roi = None THEN 0
              ELSE IF signal THEN signals_since_absent + 1
              ELSE signals_since_absent
        /\ guard_line_detector' = apply_adjustments(signalled_gld, adjustments)
        /\ last_offset' =
              IF signalled_gld.piste_roi = None THEN last_offset
              ELSE [ left   |-> Some(adjustments.left_offset),
                     center |-> Some(adjustments.center_offset),
                     right  |-> Some(adjustments.right_offset) ]
        /\ GUARD_LINES_FILE' = ensure_file(GUARD_LINES_FILE)
        /\ initialized' = r.self.initialized
        /\ fencers' = r.self.fencers
        /\ frame_count' = r.self.frame_count
        /\ updates_without_accept' = without_accept_after(r)
        /\ phase' = t.phase
        /\ phase_start_time' = t.phase_start_time
        /\ roi_selected' = t.roi_selected
        /\ last_frame_box' = frame_box
        /\ smoothed_frame_box' = frame_box
        /\ pre' = [ phase |-> phase, last_frame_box |-> last_frame_box,
                    smoothed_frame_box |-> smoothed_frame_box,
                    roi_selected |-> roi_selected,
                    roi_signaled |-> roi_signaled,
                    guard_line_detector |-> guard_line_detector,
                    self |-> self_ft ]
        /\ call' = [ op |-> "frame", detections |-> detections,
                     current_roi |-> current_roi,
                     apply_roi_filter |-> apply_roi_filter,
                     adjustments |-> adjustments ]
        /\ ret' = [ track_info |-> r.info, tracks |-> r.tracks,
                    current_phase |-> t.phase,
                    signal_roi_selected |-> signal,
                    roi_selected |-> signalled_bm.roi_selected,
                    calibration |-> signalled_gld,
                    raw_frame_box |-> raw_frame_box, frame_box |-> frame_box ]
        /\ smooth_target' = raw_frame_box
        /\ UNCHANGED <<now, ct_vars, ROI_FILE, web_server>>

-----------------------------------------------------------------------------
(* Construction: BoutManager.__init__, FencerTracker.__init__,
   CentroidTracker.__init__ *)

Init ==
    /\ phase = WAITING
    /\ roi_selected = FALSE
    /\ phase_start_time = 0
    /\ last_frame_box = None
    /\ smoothed_frame_box = None
    /\ guard_line_detector = GuardLineDetector_init
    /\ last_offset = no_offsets
    /\ now = 0
    /\ initialized = FALSE
    /\ fencers = << >>
    /\ frame_count = 0
    /\ updates_without_accept = << >>
    /\ next_id = 1
    /\ objects = << >>
    /\ centroids = << >>
    /\ disappeared = << >>
    /\ ct_updates = 0
    /\ roi_signaled = FALSE
    /\ ROI_FILE = NoFile
    /\ GUARD_LINES_FILE = NoFile
    /\ web_server = Idle
    /\ signals_since_absent = 0
    /\ smooth_target = None
    /\ pre = None
    /\ call = NoCall
    /\ ret = None

\* The bout manager driven through its public operations in any order.
Next ==
    \/ \E info \in TrackerInfos, bf \in BOOLEAN : transition(info, bf)
    \/ \E roi \in Rois \cup {None} : signal_roi_selected(roi)
    \/ \E box \in FrameBoxes \cup {None} : smooth_frame_box(box)
    \/ should_apply_roi_filter
    \/ Tick
    \/ Returned

Spec == Init /\ [][Next]_vars


\* The framing on its own: smooth_frame_box is called over and over, with a
\* box or with none.
NextSmooth ==
    \/ \E box \in SmoothBoxes \cup {None} : smooth_frame_box(box)
    \/ Returned

\* smooth_frame_box is called again with the box of the call before.
SmoothsAgain ==
    /\ call = NoCall
    /\ smooth_target # None
    /\ call' = [op |-> "smooth_frame_box", new_frame_box |-> smooth_target]

\* The loop calls smooth_frame_box on every frame (pipeline.py:229-230):
\* a call returns, and unless another call is made the last one is repeated.
SpecSmooth ==
    /\ Init
    /\ [][NextSmooth]_vars
    /\ WF_call(SmoothsAgain)
    /\ WF_call(Returned)

\* The tracker fed frame after frame, with the calibration it is handed
\* changing in between.
NextTracker ==
    \/ /\ frame_count < MaxFrames
       /\ \E dets \in DetectionLists, g \in {None, guard_line_detector} :
             update(dets, g)
    \/ \E roi \in Rois : calibrate(roi)
    \/ Returned

SpecTracker == Init /\ [][NextTracker]_vars

\* The tracker calibrated once, locked on the first frame and then fed a
\* long run of frames in which the fencers come and go.
NextDropout ==
    \/ /\ guard_line_detector.piste_roi = None
       /\ calibrate(DropoutRoi)
    \/ /\ guard_line_detector.piste_roi # None
       /\ ~initialized
       /\ update(DropoutBoth, guard_line_detector)
    \/ /\ initialized
       /\ frame_count < MaxDropoutFrames
       /\ \E dets \in DropoutDetectionLists :
             update(dets, guard_line_detector)
    \/ Returned

SpecDropout == Init /\ [][NextDropout]_vars

\* The frame loop with the web server beside it: the region is saved or
\* cleared at any point, time passes, and every frame runs the whole
\* iteration.
NextLoop ==
    \/ /\ frame_count < MaxLoopFrames
       /\ \E dets \in LoopDetectionLists : frame(dets)
    \/ \E roi \in Rois : set_manual_roi(roi[1], roi[2], roi[3], roi[4])
    \/ set_manual_roi_dump
    \/ clear_manual_roi
    \/ Tick
    \/ Returned

SpecLoop == Init /\ [][NextLoop]_vars

\* The frame loop from the selection of the region to the bout: the web
\* server saves the region and, once the fencers are locked, clears it; the
\* clock runs while the initialization timeout does before the lock; the
\* frames show two people who cannot be locked or the two fencers until the
\* lock, and afterwards the left fencer alone.
NextBout ==
    \/ /\ frame_count < MaxBoutFrames
       /\ ~initialized
       /\ \E dets \in {BoutUnlockable, BoutBoth} : frame(dets)
    \/ /\ frame_count < MaxBoutFrames
       /\ initialized
       /\ frame(BoutLeftOnly)
    \/ set_manual_roi(BoutRoi[1], BoutRoi[2], BoutRoi[3], BoutRoi[4])
    \/ set_manual_roi_dump
    \/ /\ initialized
       /\ clear_manual_roi
    \/ /\ ~initialized
       /\ phase = INITIALIZING
       /\ Tick
    \/ Returned

SpecBout == Init /\ [][NextBout]_vars

\* The frame loop when the web server saves the region once and never
\* clears it, the clock runs, and from frame StartSettleFrames + 1 on every
\* frame shows a fencer on the outer side of each guard line.
NextStart ==
    \/ /\ frame_count < StartSettleFrames
       /\ \E dets \in {BoutUnlockable, BoutBoth} : frame(dets)
    \/ /\ StartSettleFrames <= frame_count
       /\ frame_count < MaxStartFrames
       /\ frame(BoutBoth)
    \/ /\ ROI_FILE = NoFile
       /\ set_manual_roi(BoutRoi[1], BoutRoi[2], BoutRoi[3], BoutRoi[4])
    \/ set_manual_roi_dump
    \/ Tick
    \/ Returned

\* The loop takes its next frame: the step that counts frame_count, which
\* can be taken whenever the last call has returned.
TakesStartFrame ==
    /\ call = NoCall
    /\ frame_count < MaxStartFrames
    /\ frame_count' = frame_count + 1

\* The loop takes frame after frame (pipeline.py:37-38), a call returns,
\* and a write the web server has begun is finished.
SpecStart ==
    /\ Init
    /\ [][NextStart]_vars
    /\ WF_frame_count(TakesStartFrame)
    /\ WF_call(Returned)
    /\ WF_web_server(set_manual_roi_dump)

\* The frame loop beside a web server that saves and clears the region.
RegionFrame ==
    /\ frame_count < MaxRegionFrames
    /\ \E dets \in RegionDetectionLists : frame(dets)

NextRegion ==
    \/ RegionFrame
    \/ \E roi \in Rois : set_manual_roi(roi[1], roi[2], roi[3], roi[4])
    \/ set_manual_roi_dump
    \/ clear_manual_roi
    \/ \E offset_x \in RegionOffsets :
          set_guard_line_adjustment("left", offset_x, None)
    \/ set_guard_line_adjustment_dump
    \/ Returned

\* The loop takes its next frame: the step that counts frame_count, which
\* can be taken whenever the last call has returned.
TakesRegionFrame ==
    /\ call = NoCall
    /\ frame_count < MaxRegionFrames
    /\ frame_count' = frame_count + 1

\* The loop takes frame after frame (pipeline.py:37-38), a call returns,
\* and a write the web server has begun is finished.
SpecRegion ==
    /\ Init
    /\ [][NextRegion]_vars
    /\ WF_frame_count(TakesRegionFrame)
    /\ WF_call(Returned)
    /\ WF_web_server(set_manual_roi_dump)
    /\ WF_web_server(set_guard_line_adjustment_dump)

\* The tracker calibrated and locked, then fed frames in which only the
\* left fencer is seen, and validated against the guard lines at any point.
NextGuard ==
    \/ /\ guard_line_detector.piste_roi = None
       /\ calibrate(GuardRoi)
    \/ /\ guard_line_detector.piste_roi # None
       /\ ~initialized
       /\ update(<<GuardLeft, GuardRight>>, guard_line_detector)
    \/ /\ initialized
       /\ frame_count < MaxGuardFrames
       /\ \E dets \in GuardUpdateLists : update(dets, guard_line_detector)
    \/ \E dets \in GuardValidateLists : validate(dets)
    \/ Returned

SpecGuard == Init /\ [][NextGuard]_vars

\* The tracker calibrated, locked on the first frame and fed frames in
\* which the fencers move towards and past each other.
NextPass ==
    \/ /\ guard_line_detector.piste_roi = None
       /\ calibrate(DropoutRoi)
    \/ /\ guard_line_detector.piste_roi # None
       /\ ~initialized
       /\ update(PassBoth, guard_line_detector)
    \/ /\ initialized
       /\ frame_count < MaxPassFrames
       /\ \E dets \in PassDetectionLists : update(dets, guard_line_detector)
    \/ Returned

SpecPass == Init /\ [][NextPass]_vars

\* The calibration on its own: the region is set, directly or through the
\* bout manager's signal, lines are moved, and frames are classified, in any
\* order.
NextCalibration ==
    \/ \E roi \in CalibrationRois : calibrate(roi)
    \/ \E roi \in Rois \cup {None} : signal_roi_selected(roi)
    \/ \E line_id \in AdjustLineIds, offset_x \in Offsets, tilt \in Tilts :
          adjust(line_id, offset_x, tilt)
    \/ \E dets \in ClassifyLists : classify(dets)
    \/ Returned

SpecCalibration == Init /\ [][NextCalibration]_vars

\* The generic tracker fed frame after frame.
NextCentroid ==
    \/ /\ ct_updates < MaxCentroidUpdates
       /\ \E dets \in CentroidDetectionLists :
             \E rows \in RowOrders(self_ct, dets) : ct_update(dets, rows)
    \/ Returned

SpecCentroid == Init /\ [][NextCentroid]_vars

\* The generic tracker over a long run of frames in which objects come and
\* go.
NextCentroidDropout ==
    \/ /\ ct_updates < MaxCentroidDropoutUpdates
       /\ \E dets \in CentroidDropoutLists :
             \E rows \in RowOrders(self_ct, dets) : ct_update(dets, rows)
    \/ Returned

SpecCentroidDropout == Init /\ [][NextCentroidDropout]_vars

-----------------------------------------------------------------------------
(* The bout phase machine: claims C1-C7 *)

\* The last step was transition(tracker_info, bout_finished = bf).
IsTransition(bf) == call.op = "transition" /\ call.bout_finished = bf

\* What the last transition call read from tracker_info.
CallInitialized == Get(call.tracker_info, "initialized", FALSE)

CallNumFencers == Get(call.tracker_info, "num_fencers", 0)

\* Seconds spent in the phase when the last call was made.
CallTimeInPhase == now - pre.phase_start_time

\* C1: transition with bout_finished = true sets the phase to BOUT_FINISHED and
\* restarts the phase clock, from every phase and for every tracker_info, and
\* nothing of the other phase logic happens on that tick (roi_selected and the
\* smoothing baseline are as before).
C1_FinishedSignalFirst ==
    IsTransition(TRUE) =>
        /\ phase = BOUT_FINISHED
        /\ phase_start_time = now
        /\ ret = BOUT_FINISHED
        /\ roi_selected = pre.roi_selected
        /\ last_frame_box = pre.last_frame_box

\* C1 witness: the finished signal arrives in INITIALIZING after the timeout
\* has elapsed, with a lock reported and a baseline stored.
C1_Witness ==
    /\ IsTransition(TRUE)
    /\ pre.phase = INITIALIZING
    /\ CallTimeInPhase > initialization_duration * 2
    /\ CallInitialized
    /\ pre.last_frame_box # None
    /\ phase = BOUT_FINISHED

\* C2: in WAITING a tick without the finished signal moves to INITIALIZING iff
\* roi_selected and num_fencers >= 2, and otherwise stays WAITING.
C2_WaitingToInitializing ==
    (IsTransition(FALSE) /\ pre.phase = WAITING) =>
        IF pre.roi_selected /\ CallNumFencers >= 2
        THEN phase = INITIALIZING
        ELSE phase = WAITING

\* C2 witness: two fencers are reported while no region was signalled, and
\* the phase stays WAITING.
C2_Witness ==
    /\ IsTransition(FALSE)
    /\ pre.phase = WAITING
    /\ ~pre.roi_selected
    /\ CallNumFencers >= 2
    /\ phase = WAITING

\* C2, the other side: the move to INITIALIZING happens.
C2_WitnessMove ==
    /\ IsTransition(FALSE)
    /\ pre.phase = WAITING
    /\ pre.roi_selected
    /\ CallNumFencers >= 2
    /\ phase = INITIALIZING

\* C3: in INITIALIZING a tick without the finished signal moves to BOUT_ACTIVE
\* iff tracker_info.initialized; that move clears the smoothing baseline, the
\* baseline stays cleared until smooth_frame_box is called, and a
\* smooth_frame_box call without a baseline returns its input unchanged.
C3_InitializingToActive ==
    /\ (IsTransition(FALSE) /\ pre.phase = INITIALIZING) =>
          /\ (phase = BOUT_ACTIVE) <=> CallInitialized
          /\ phase = BOUT_ACTIVE => last_frame_box = None
    /\ (call.op \in {"transition", "signal_roi_selected"}
            /\ pre.last_frame_box = None) =>
          last_frame_box = None
    /\ (call.op = "smooth_frame_box" /\ pre.last_frame_box = None) =>
          ret = call.new_frame_box

\* C3 witness: a baseline was stored when the lock was reported.
C3_Witness ==
    /\ IsTransition(FALSE)
    /\ pre.phase = INITIALIZING
    /\ CallInitialized
    /\ pre.last_frame_box # None
    /\ phase = BOUT_ACTIVE
    /\ last_frame_box = None

\* C4: in INITIALIZING a tick without the finished signal and without a lock
\* moves to WAITING and clears roi_selected when more than
\* 2 * initialization_duration have elapsed in the phase, and otherwise leaves
\* the phase and roi_selected as they were.
C4_InitializationTimeout ==
    (IsTransition(FALSE) /\ pre.phase = INITIALIZING /\ ~CallInitialized) =>
        IF CallTimeInPhase > 2 * initialization_duration
        THEN phase = WAITING /\ roi_selected = FALSE
        ELSE phase = INITIALIZING /\ roi_selected = pre.roi_selected

\* C4 witness: the timeout fires.
C4_Witness ==
    /\ IsTransition(FALSE)
    /\ pre.phase = INITIALIZING
    /\ ~CallInitialized
    /\ CallTimeInPhase > 2 * initialization_duration
    /\ pre.roi_selected
    /\ phase = WAITING
    /\ ~roi_selected

\* C4, the boundary: exactly 2 * initialization_duration elapsed, no timeout.
C4_WitnessBoundary ==
    /\ IsTransition(FALSE)
    /\ pre.phase = INITIALIZING
    /\ ~CallInitialized
    /\ CallTimeInPhase = 2 * initialization_duration
    /\ phase = INITIALIZING

C6_FinishedDwell ==
    (IsTransition(FALSE) /\ pre.phase = BOUT_FINISHED) =>
        IF CallTimeInPhase > 2
        THEN phase = WAITING /\ last_frame_box = None
        ELSE phase = BOUT_FINISHED

\* C6 witness: the dwell is over and a stored baseline is cleared.
C6_Witness ==
    /\ IsTransition(FALSE)
    /\ pre.phase = BOUT_FINISHED
    /\ CallTimeInPhase > 2
    /\ pre.last_frame_box # None
    /\ phase = WAITING
    /\ last_frame_box = None

\* C6, the boundary: exactly 2 seconds elapsed, still BOUT_FINISHED.
C6_WitnessBoundary ==
    /\ IsTransition(FALSE)
    /\ pre.phase = BOUT_FINISHED
    /\ CallTimeInPhase = 2
    /\ phase = BOUT_FINISHED

\* The edges of the phase graph.
PhaseEdges ==
    { <<WAITING, INITIALIZING>>, <<INITIALIZING, BOUT_ACTIVE>>,
      <<INITIALIZING, WAITING>>, <<BOUT_FINISHED, WAITING>> }
    \cup { <<p, BOUT_FINISHED>> : p \in BoutPhase }

-----------------------------------------------------------------------------
(* The lock of the two fencers: claims C8-C10 *)

\* The last step was update(detections, guard_line_detector) on a tracker
\* that was not initialized.
IsUninitializedUpdate == call.op = "update" /\ ~pre.initialized

\* The calibration handed to the last update has a region.
CallHasRegion ==
    /\ call.guard_line_detector # None
    /\ call.guard_line_detector.piste_roi # None

\* Center-x (times 2) of the detections of the last update whose center is
\* left of the left line, and of those whose center is right of the right line.
LeftCenters ==
    { centroid_x(call.detections[i]) : i \in
        { j \in 1..Len(call.detections) :
            14 * centroid_x(call.detections[j])
                < val(call.guard_line_detector.guard_line_left_x) } }

RightCenters ==
    { centroid_x(call.detections[i]) : i \in
        { j \in 1..Len(call.detections) :
            14 * centroid_x(call.detections[j])
                > val(call.guard_line_detector.guard_line_right_x) } }

\* The best candidates of the specification: the left-sider nearest the left
\* line and the right-sider nearest the right line.
BestLeftCenter == SetMax(LeftCenters)

BestRightCenter == SetMin(RightCenters)

\* A lock can be attempted: two detections, a region, a candidate on each side.
LockAttempt ==
    /\ IsUninitializedUpdate
    /\ Len(call.detections) >= 2
    /\ CallHasRegion
    /\ LeftCenters # {}
    /\ RightCenters # {}

\* The last update returned provisional tracks only and locked nobody.
StayedUninitialized ==
    /\ ~initialized
    /\ DOMAIN fencers = {}
    /\ ~ret.info.initialized
    /\ \A i \in 1..Len(ret.tracks) : ret.tracks[i].id >= 100

\* C8: when the best left-side and right-side candidates of an uninitialized
\* update are horizontally closer than 80 px, the tracker stays uninitialized,
\* creates no locked fencer and returns only provisional tracks.
C8_LockRequiresSeparation ==
    (LockAttempt /\ BestRightCenter - BestLeftCenter < 2 * 80) =>
        StayedUninitialized

\* C9: when a lock can be attempted and the best candidates are at least
\* 80 px apart, id 1 is locked onto the left-side detection with the greatest
\* center-x and id 2 onto the right-side detection with the smallest center-x,
\* initialized becomes true and exactly these two locked tracks are returned.
C9_LockOntoBestCandidates ==
    (LockAttempt /\ BestRightCenter - BestLeftCenter >= 2 * 80) =>
        /\ initialized
        /\ DOMAIN fencers = {1, 2}
        /\ fencers[1].id = 1 /\ fencers[2].id = 2
        /\ fencers[1].centroid[1] = BestLeftCenter
        /\ fencers[2].centroid[1] = BestRightCenter
        /\ \E i \in 1..Len(call.detections) :
              fencers[1].bbox = call.detections[i].bbox
        /\ \E i \in 1..Len(call.detections) :
              fencers[2].bbox = call.detections[i].bbox
        /\ ret.info.initialized
        /\ Len(ret.tracks) = 2
        /\ ret.tracks[1] = [id |-> 1, bbox |-> fencers[1].bbox,
                            centroid |-> fencers[1].centroid]
        /\ ret.tracks[2] = [id |-> 2, bbox |-> fencers[2].bbox,
                            centroid |-> fencers[2].centroid]

\* C9 restricted to lists whose right-side detections all have their left
\* edge at or right of the left line (the shape get_best_detection assumes).
C9_LockOntoBestCandidatesNarrow ==
    (/\ LockAttempt
     /\ \A i \in 1..Len(call.detections) :
            14 * centroid_x(call.detections[i])
                > val(call.guard_line_detector.guard_line_right_x)
            => 28 * call.detections[i].bbox[1]
                  >= val(call.guard_line_detector.guard_line_left_x))
    => C9_LockOntoBestCandidates

\* A lock was made by the last update.
LockMade ==
    /\ LockAttempt
    /\ initialized
    /\ DOMAIN fencers = {1, 2}

\* No lock is possible in the last update, for one of the reasons of C10.
LockImpossible ==
    /\ IsUninitializedUpdate
    /\ \/ Len(call.detections) < 2
       \/ call.guard_line_detector = None
       \/ call.guard_line_detector.piste_roi = None
       \/ LeftCenters = {}
       \/ RightCenters = {}

\* C10: an uninitialized update with fewer than 2 detections, or no
\* calibration object, or a calibration without a region, or no candidate on
\* one of the two sides leaves the tracker uninitialized with an empty locked
\* map, reports initialized = false and frame_box = none, and returns every
\* detection as a provisional track, numbered 100, 101, ... in ascending order
\* of left x.
C10_NoLockIsProvisional ==
    LockImpossible =>
        /\ ~initialized
        /\ DOMAIN fencers = {}
        /\ ~ret.info.initialized
        /\ ret.info.frame_box = None
        /\ Len(ret.tracks) = Len(call.detections)
        /\ \A i \in 1..Len(ret.tracks) :
              /\ ret.tracks[i].id = 100 + (i - 1)
              /\ ret.tracks[i].centroid = centroid_from_bbox(ret.tracks[i].bbox)
        /\ \A i, j \in 1..Len(ret.tracks) :
              i < j => ret.tracks[i].bbox[1] <= ret.tracks[j].bbox[1]
        /\ \A i \in 1..Len(call.detections) :
              Cardinality({j \in 1..Len(ret.tracks) :
                              ret.tracks[j].bbox = call.detections[i].bbox})
              = Cardinality({j \in 1..Len(call.detections) :
                              call.detections[j].bbox = call.detections[i].bbox})

\* C10 witness: three detections and a region, but nobody right of the right
\* line; the tracks come back in another order than the detections came in.
C10_Witness ==
    /\ LockImpossible
    /\ Len(call.detections) = 3
    /\ CallHasRegion
    /\ LeftCenters # {}
    /\ RightCenters = {}
    /\ ret.tracks[1].bbox # call.detections[1].bbox
    /\ ret.tracks[3].id = 102

\* C10, the other reasons: one detection; no calibration object; no region.
C10_WitnessOneDetection ==
    LockImpossible /\ Len(call.detections) = 1 /\ Len(ret.tracks) = 1

C10_WitnessNoCalibration ==
    /\ LockImpossible
    /\ Len(call.detections) = 3
    /\ call.guard_line_detector = None
    /\ guard_line_detector.piste_roi # None

C10_WitnessNoRegion ==
    /\ LockImpossible
    /\ Len(call.detections) = 3
    /\ call.guard_line_detector # None
    /\ call.guard_line_detector.piste_roi = None


-----------------------------------------------------------------------------
(* Tracking the two locked fencers: claims C11-C15 *)

\* The last step was update(detections, ...) on a locked tracker.
IsTrackingUpdate == call.op = "update" /\ pre.initialized

\* The detection of the last update nearest to centroid c among the indices
\* avail (the first of the nearest), or 0 when it is farther than
\* max_tracking_distance or avail is empty.
NearestInReach(c, avail) ==
    IF avail = {} THEN 0
    ELSE LET d(i) == dist_sq(c, centroid_from_bbox(call.detections[i].bbox))
             n == SetMin({i \in avail : \A j \in avail : d(i) <= d(j)})
         IN  IF d(n) <= 4 * max_tracking_distance * max_tracking_distance
             THEN n ELSE 0

\* Detection n, proposed to a fencer, is horizontally closer than 50 px to
\* the centroid other_c of the other fencer.
WouldOverlap(n, other_c) ==
    Abs(centroid_from_bbox(call.detections[n].bbox)[1] - other_c[1]) < 2 * 50

AllDetections == 1..Len(call.detections)

\* What fencer 1 is proposed, and whether the proposal is rejected.
Proposed1 == NearestInReach(pre.fencers[1].centroid, AllDetections)

Rejected1 ==
    /\ IsTrackingUpdate
    /\ DOMAIN pre.fencers = {1, 2}
    /\ Proposed1 # 0
    /\ WouldOverlap(Proposed1, pre.fencers[2].centroid)

Accepted1 ==
    /\ IsTrackingUpdate
    /\ DOMAIN pre.fencers = {1, 2}
    /\ Proposed1 # 0
    /\ ~WouldOverlap(Proposed1, pre.fencers[2].centroid)

\* What fencer 2 is proposed once fencer 1 has been served; fencer 1's
\* current centroid is then the one it has after its own update.
Proposed2 ==
    NearestInReach(pre.fencers[2].centroid,
                   IF Accepted1 THEN AllDetections \ {Proposed1}
                   ELSE AllDetections)

Current1 ==
    IF Accepted1 THEN centroid_from_bbox(call.detections[Proposed1].bbox)
    ELSE pre.fencers[1].centroid

Rejected2 ==
    /\ IsTrackingUpdate
    /\ DOMAIN pre.fencers = {1, 2}
    /\ Proposed2 # 0
    /\ WouldOverlap(Proposed2, Current1)

\* Fencer id is where it was before the update (or has been evicted).
Unmoved(id) ==
    id \in DOMAIN fencers =>
        /\ fencers[id].bbox = pre.fencers[id].bbox
        /\ fencers[id].centroid = pre.fencers[id].centroid

\* Fencer id came out of the update as its own matching alone decides:
\* moved onto detection n with its absence counter reset when n # 0 was
\* accepted, else left in place with the absence counter raised by miss.
OwnOutcome(id, n, accepted, miss) ==
    LET before == pre.fencers[id]
        expected ==
            IF accepted
            THEN [before EXCEPT
                    !.bbox = call.detections[n].bbox,
                    !.centroid = centroid_from_bbox(call.detections[n].bbox),
                    !.frames_since_detection = 0,
                    !.frames_alive = @ + 1]
            ELSE [before EXCEPT
                    !.frames_since_detection = @ + miss,
                    !.frames_alive = @ + 1]
    IN  IF expected.frames_since_detection > dropout_tolerance
        THEN id \notin DOMAIN fencers
        ELSE id \in DOMAIN fencers /\ fencers[id] = expected

\* C11: when the detection proposed for one locked fencer would put its
\* centroid horizontally closer than 50 px to the other locked fencer's
\* current centroid, the moving fencer keeps its bbox and centroid, and the
\* other fencer's bbox, centroid and counters are what its own matching gives:
\* the rejection does not touch them.
C11_AntiOverlapRejection ==
    /\ Rejected1 =>
          /\ Unmoved(1)
          /\ OwnOutcome(2, Proposed2,
                        Proposed2 # 0 /\ ~Rejected2,
                        IF Proposed2 # 0 THEN 2 ELSE 1)
    /\ Rejected2 =>
          /\ Unmoved(2)
          /\ OwnOutcome(1, Proposed1, Accepted1,
                        IF Proposed1 # 0 THEN 2 ELSE 1)

\* C11 witness: fencer 1 has moved onto a new detection and the detection
\* proposed to fencer 2 is rejected for being too close to it.
C11_Witness ==
    /\ Rejected2
    /\ Accepted1
    /\ fencers[1].bbox # pre.fencers[1].bbox
    /\ fencers[2].bbox = pre.fencers[2].bbox

\* C11, the other way round: fencer 1 is rejected and fencer 2 then takes
\* the same detection.
C11_WitnessFirstRejected ==
    /\ Rejected1
    /\ Proposed2 = Proposed1
    /\ ~Rejected2
    /\ fencers[1].bbox = pre.fencers[1].bbox
    /\ fencers[2].bbox = call.detections[Proposed2].bbox


\* C12: a locked fencer that has gone dropout_tolerance consecutive tracking
\* updates or fewer without an accepted update (no detection near enough, or
\* its updates rejected) is still locked; the update that makes it
\* dropout_tolerance + 1 evicts it; and the eviction of one fencer leaves the
\* other, if it is not due itself, locked.
C12_DropoutEvictionBoundary ==
    IsTrackingUpdate =>
        \A id \in DOMAIN pre.fencers :
            /\ updates_without_accept[id] <= dropout_tolerance
                  => id \in DOMAIN fencers
            /\ updates_without_accept[id] = dropout_tolerance + 1
                  => id \notin DOMAIN fencers

\* An eviction in the last update.
Evicted(id) ==
    /\ IsTrackingUpdate
    /\ id \in DOMAIN pre.fencers
    /\ id \notin DOMAIN fencers


\* Detection i of the last update is within max_tracking_distance of where
\* fencer id was locked before the update.
MovedWithinReach(i, id) ==
    dist_sq(pre.fencers[id].centroid,
            centroid_from_bbox(call.detections[i].bbox))
        <= 4 * max_tracking_distance * max_tracking_distance

\* The frame holds the detections of the two competitors, i that of
\* competitor 1 and j that of competitor 2, each moved within reach, and no
\* other reading of the frame is possible; kept apart, neither detection
\* comes within the minimum separation of the other competitor.
TwoCompetitorsMoved(i, j) ==
    /\ IsTrackingUpdate
    /\ DOMAIN pre.fencers = {1, 2}
    /\ Len(call.detections) = 2
    /\ {i, j} = {1, 2}
    /\ MovedWithinReach(i, 1) /\ MovedWithinReach(j, 2)
    /\ ~(MovedWithinReach(j, 1) /\ MovedWithinReach(i, 2))
    /\ ~WouldOverlap(i, pre.fencers[2].centroid)
    /\ ~WouldOverlap(j, centroid_from_bbox(call.detections[i].bbox))

\* C13: once locked, if each competitor's detection of the next frame has
\* moved by at most max_tracking_distance from that competitor's locked
\* centroid, the update returns id 1 on the detection of competitor 1 and
\* id 2 on the detection of competitor 2.
C13_IdentityStability ==
    \A i, j \in 1..2 :
        TwoCompetitorsMoved(i, j) =>
            /\ \E k \in 1..Len(ret.tracks) :
                  /\ ret.tracks[k].id = 1
                  /\ ret.tracks[k].bbox = call.detections[i].bbox
            /\ \E k \in 1..Len(ret.tracks) :
                  /\ ret.tracks[k].id = 2
                  /\ ret.tracks[k].bbox = call.detections[j].bbox


\* Detection i of the last update was taken by a locked fencer.
TakenByLocked(i) ==
    \E id \in DOMAIN fencers :
        /\ fencers[id].frames_since_detection = 0
        /\ fencers[id].bbox = call.detections[i].bbox

\* C14: after the lock, while at least one fencer is locked, an update adds
\* no locked fencer: the locked ids after it are among those before it, the
\* tracks with an id below 100 are exactly the locked fencers, and every
\* detection no locked fencer took is returned as a provisional track with an
\* id of 100 or more.
C14_NoPromotionAfterLock ==
    (IsTrackingUpdate /\ DOMAIN pre.fencers # {}) =>
        /\ DOMAIN fencers \subseteq DOMAIN pre.fencers
        /\ \A k \in 1..Len(ret.tracks) :
              ret.tracks[k].id < 100 =>
                  /\ ret.tracks[k].id \in DOMAIN fencers
                  /\ ret.tracks[k].bbox = fencers[ret.tracks[k].id].bbox
        /\ \A id \in DOMAIN fencers :
              Cardinality({k \in 1..Len(ret.tracks) : ret.tracks[k].id = id}) = 1
        /\ \A i \in 1..Len(call.detections) :
              ~TakenByLocked(i) =>
                  \E k \in 1..Len(ret.tracks) :
                      /\ ret.tracks[k].id >= 100
                      /\ ret.tracks[k].bbox = call.detections[i].bbox

\* C14 witness: fencer 1 was evicted earlier; both competitors are detected
\* again, fencer 2 takes its detection and the other one comes back as
\* provisional track 100, id 1 staying vacant.
C14_Witness ==
    /\ IsTrackingUpdate
    /\ DOMAIN pre.fencers = {2}
    /\ call.detections = DropoutBoth
    /\ DOMAIN fencers = {2}
    /\ TakenByLocked(2)
    /\ ~TakenByLocked(1)
    /\ \E k \in 1..Len(ret.tracks) : ret.tracks[k].id = 100

\* C15: once both locked fencers have been evicted (the tracker had locked,
\* its map is empty again) the tracker is back in the uninitialized branch:
\* the next updates report initialized = false, and
\* a frame with a fencer behind each guard line, far enough apart, locks
\* ids 1 and 2 anew.
C15_ReentryWhenEmpty ==
    (/\ IsTrackingUpdate
     /\ DOMAIN updates_without_accept = {1, 2}
     /\ DOMAIN pre.fencers = {}) =>
        /\ ~ret.info.initialized
        /\ call.detections = DropoutBoth => DOMAIN fencers = {1, 2}

\* The second half of C15, which the code keeps: while a fencer is locked
\* the tracker does not go back to the uninitialized branch.
C15_NoReentryWhileLocked ==
    (call.op = "update" /\ DOMAIN pre.fencers # {}) =>
        /\ initialized
        /\ ret.info.initialized


-----------------------------------------------------------------------------
(* Frame-box smoothing: claims C16-C17 *)

\* The last step was a frame of the loop whose smooth_frame_box call and the
\* one of the frame before it both received a box: smoothed_frame_box is what
\* the call of the frame before returned, and it is none exactly when that
\* call received none.
TwoBoxesInARow ==
    /\ call.op = "frame"
    /\ pre.smoothed_frame_box # None
    /\ ret.raw_frame_box # None

\* Every coordinate returned is within max_frame_velocity of the coordinate
\* returned by the frame before.
WithinVelocity ==
    \A k \in 1..4 :
        Abs(ret.frame_box[k] - pre.smoothed_frame_box[k]) <= max_frame_velocity

\* The transition of the last frame cleared the smoothing baseline.
BaselineCleared ==
    \/ pre.phase = INITIALIZING /\ ret.current_phase = BOUT_ACTIVE
    \/ pre.phase = BOUT_FINISHED /\ ret.current_phase = WAITING

\* C16 as stated: for two consecutive smooth_frame_box calls of the frame
\* loop that both receive a box, each coordinate returned by the second is
\* within max_frame_velocity of the one returned by the first.
C16_SmoothingBound == TwoBoxesInARow => WithinVelocity

\* C16 amended: the bound holds for two consecutive calls of the frame loop
\* that both receive a box unless the transition between them cleared the
\* baseline (INITIALIZING to BOUT_ACTIVE, or BOUT_FINISHED to WAITING); then
\* the second call returns its box as it is.
C16_SmoothingBoundUnlessCleared ==
    TwoBoxesInARow =>
        IF BaselineCleared THEN ret.frame_box = ret.raw_frame_box
        ELSE WithinVelocity

\* C16 witness: a frame in BOUT_ACTIVE whose raw box is more than
\* max_frame_velocity away from the last output, and is clamped.
C16_Witness ==
    /\ TwoBoxesInARow
    /\ ~BaselineCleared
    /\ pre.phase = BOUT_ACTIVE
    /\ ret.frame_box # ret.raw_frame_box
    /\ \E k \in 1..4 :
          Abs(ret.frame_box[k] - pre.smoothed_frame_box[k]) = max_frame_velocity

\* C16, the frame at which the bound fails: the lock is confirmed, the
\* baseline cleared and the box handed through.
C16_WitnessCleared ==
    /\ TwoBoxesInARow
    /\ BaselineCleared
    /\ ~WithinVelocity

\* The last step was smooth_frame_box(new_frame_box).
IsSmooth == call.op = "smooth_frame_box"

\* C17: smooth_frame_box called with a box while no baseline is stored
\* returns the box unchanged and stores it as the baseline;
\* smooth_frame_box(none) returns none and clears the baseline, so that the
\* next call with a box finds no baseline and is a passthrough again.
C17_PassthroughAndClear ==
    IsSmooth =>
        /\ (call.new_frame_box # None /\ pre.last_frame_box = None) =>
              /\ ret = call.new_frame_box
              /\ last_frame_box = call.new_frame_box
              /\ smoothed_frame_box = call.new_frame_box
        /\ call.new_frame_box = None =>
              /\ ret = None
              /\ last_frame_box = None
              /\ smoothed_frame_box = None

\* C17 witness: a box handed through because no baseline was stored, in a
\* bout manager that has been running (its clock has advanced).
C17_Witness ==
    /\ IsSmooth
    /\ call.new_frame_box # None
    /\ pre.last_frame_box = None
    /\ ret = call.new_frame_box
    /\ now > 0

\* C17, the clearing call: a stored baseline is dropped by none.
C17_WitnessClear ==
    /\ IsSmooth
    /\ call.new_frame_box = None
    /\ pre.last_frame_box # None
    /\ last_frame_box = None

-----------------------------------------------------------------------------
(* CentroidTracker: claims C18-C20 *)

\* The last step was CentroidTracker.update(detections) with detections.
IsCentroidUpdate == call.op = "ct_update" /\ Len(call.detections) > 0

\* Detection c of the last update is within max_distance of where object
\* obj_id was before the update.
WithinMaxDistance(obj_id, c) ==
    dist_sq(pre.centroids[obj_id],
            ct_centroid_from_bbox(call.detections[c].bbox))
        <= 4 * max_distance * max_distance

\* The ids of the tracks the last update returned.
ReturnedIds == { ret[k].id : k \in 1..Len(ret) }

\* Two objects are tracked and the frame holds one detection for each of
\* them, displaced by at most max_distance.
TwoObjectsMoved ==
    /\ IsCentroidUpdate
    /\ Cardinality(DOMAIN pre.objects) = 2
    /\ Len(call.detections) = 2
    /\ \E a, b \in DOMAIN pre.objects :
          /\ a # b
          /\ WithinMaxDistance(a, 1)
          /\ WithinMaxDistance(b, 2)

\* C18: if two tracked objects each have, in the next frame, a detection
\* displaced by at most max_distance from their centroid, the update returns
\* exactly the ids of the frame before: none lost, none created.
C18_CentroidIdentityStability ==
    TwoObjectsMoved => ReturnedIds = DOMAIN pre.objects

\* C18 in the setting of test_tracker_id_persistence: each detection is
\* within max_distance of one object only.
C18_StabilityWhenApart ==
    (/\ TwoObjectsMoved
     /\ \A c \in 1..2 :
           Cardinality({o \in DOMAIN pre.objects : WithinMaxDistance(o, c)}) = 1)
    => ReturnedIds = DOMAIN pre.objects

\* Detection c of the last update is held, after it, by an object that
\* existed before it.
ClaimedByExisting(c) ==
    \E obj_id \in DOMAIN pre.objects \cap DOMAIN objects :
        objects[obj_id] = call.detections[c].bbox

\* Detection c of the last update is held, after it, by an object created
\* in it, whose disappeared counter is 0.
RegisteredFresh(c) ==
    \E obj_id \in DOMAIN objects :
        /\ obj_id >= pre.next_id
        /\ obj_id < next_id
        /\ objects[obj_id] = call.detections[c].bbox
        /\ centroids[obj_id] = ct_centroid_from_bbox(call.detections[c].bbox)
        /\ disappeared[obj_id] = 0

\* C19: at the end of an update every detection that no existing object
\* claims is registered as a new object with a fresh id and a disappeared
\* counter of 0, one id for each, and the existing objects keep their ids;
\* for an empty tracker as for one that holds objects.
C19_UnclaimedAreRegistered ==
    IsCentroidUpdate =>
        /\ \A c \in 1..Len(call.detections) :
              ~ClaimedByExisting(c) => RegisteredFresh(c)
        /\ next_id - pre.next_id =
              Cardinality({c \in 1..Len(call.detections) : ~ClaimedByExisting(c)})
        /\ DOMAIN pre.objects \subseteq DOMAIN objects

\* C19 for the empty tracker, where the code does as the claim says.
C19_RegisteredWhenEmpty ==
    (IsCentroidUpdate /\ DOMAIN pre.objects = {}) =>
        /\ \A c \in 1..Len(call.detections) : RegisteredFresh(c)
        /\ next_id - pre.next_id = Len(call.detections)

\* What the code does for a tracker that already holds objects: the
\* detections left over are registered with fresh ids, and the pass that
\* marks unmatched objects, which runs after the registration, takes their
\* counter to 1 in the same update.
C19_RegisteredAlreadyMarked ==
    (IsCentroidUpdate /\ DOMAIN pre.objects # {}) =>
        /\ \A obj_id \in DOMAIN objects \ DOMAIN pre.objects :
              /\ obj_id >= pre.next_id
              /\ \E c \in 1..Len(call.detections) :
                    objects[obj_id] = call.detections[c].bbox
              /\ disappeared[obj_id] = 1
        /\ next_id - pre.next_id =
              Cardinality({c \in 1..Len(call.detections) : ~ClaimedByExisting(c)})
        /\ DOMAIN pre.objects \subseteq DOMAIN objects

\* The first nearest detection to object obj_id among the columns avail, or
\* 0 when avail is empty.
NearestAmong(obj_id, avail) ==
    IF avail = {} THEN 0
    ELSE SetMin({c \in avail : \A e \in avail :
                    D(pre, obj_id, call.detections, c)
                        <= D(pre, obj_id, call.detections, e)})

AllColumns == 1..Len(call.detections)

\* The matching as C20 states it, from position k of call.rows on, given the
\* claims made so far (object -> column, 0 for none): each object claims the
\* nearest detection not yet claimed, if within max_distance.
RECURSIVE StatedClaims(_, _)
StatedClaims(claims, k) ==
    IF k > Len(call.rows) THEN claims
    ELSE LET obj_id == call.rows[k]
             taken == {claims[o] : o \in DOMAIN claims} \ {0}
             c == NearestAmong(obj_id, AllColumns \ taken)
         IN  StatedClaims(
                Put(claims, obj_id,
                    IF c # 0 /\ WithinMaxDistance(obj_id, c) THEN c ELSE 0),
                k + 1)

\* The matching as the code makes it: each object looks at the detection
\* nearest to it among all of them, and claims it if no earlier object has
\* and it is within max_distance; else it claims nothing.
RECURSIVE NearestOnlyClaims(_, _)
NearestOnlyClaims(claims, k) ==
    IF k > Len(call.rows) THEN claims
    ELSE LET obj_id == call.rows[k]
             taken == {claims[o] : o \in DOMAIN claims} \ {0}
             c == NearestAmong(obj_id, AllColumns)
         IN  NearestOnlyClaims(
                Put(claims, obj_id,
                    IF c \notin taken /\ WithinMaxDistance(obj_id, c)
                    THEN c ELSE 0),
                k + 1)

\* The objects are processed in ascending order of their smallest distance
\* to a detection.
RowsAscending ==
    \A k, l \in 1..Len(call.rows) :
        k < l => row_min(pre, call.rows[k], call.detections)
                    <= row_min(pre, call.rows[l], call.detections)

\* The update left the objects where the matching claims puts them, claimed
\* no detection twice and registered the detections left over.
Realises(claims) ==
    /\ \A o \in DOMAIN pre.objects :
          objects[o] = IF claims[o] # 0 THEN call.detections[claims[o]].bbox
                       ELSE pre.objects[o]
    /\ \A o, q \in DOMAIN pre.objects :
          (o # q /\ claims[o] # 0) => claims[o] # claims[q]
    /\ next_id - pre.next_id =
          Len(call.detections)
            - Cardinality({claims[o] : o \in DOMAIN pre.objects} \ {0})

\* The last update matched existing objects against detections.
IsMatchingUpdate == IsCentroidUpdate /\ DOMAIN pre.objects # {}

\* C20 as stated: objects are processed in ascending order of their minimum
\* distance to any detection, each claims the nearest detection not yet
\* claimed by an earlier object if it is within max_distance, and no
\* detection is claimed twice.
C20_GreedyNearestUnclaimed ==
    IsMatchingUpdate =>
        /\ RowsAscending
        /\ Realises(StatedClaims(<< >>, 1))

\* The matching as the code makes it: objects are processed in ascending order of their minimum
\* distance to any detection; each object claims the detection nearest to it
\* among all detections, provided no earlier object has claimed it and it is
\* within max_distance, and otherwise claims nothing in this update; no
\* detection is claimed twice.
GreedyNearestOnly ==
    IsMatchingUpdate =>
        /\ RowsAscending
        /\ Realises(NearestOnlyClaims(<< >>, 1))

\* The case that separates the two matchings: the second object's nearest detection has been claimed by
\* the first; another detection is within its reach, and it claims nothing.
NearestAlreadyClaimed ==
    /\ IsMatchingUpdate
    /\ Len(call.rows) = 2
    /\ NearestOnlyClaims(<< >>, 1)[call.rows[1]] # 0
    /\ NearestOnlyClaims(<< >>, 1)[call.rows[2]] = 0
    /\ StatedClaims(<< >>, 1)[call.rows[2]] # 0

\* The last step was a CentroidTracker.update, with or without detections.
IsAnyCentroidUpdate == call.op = "ct_update"

\* Object obj_id, which existed before the last update, claimed no detection
\* in it.
ClaimedNothing(obj_id) ==
    \/ Len(call.detections) = 0
    \/ NearestOnlyClaims(<< >>, 1)[obj_id] = 0

\* Object obj_id was marked once by the last update: its counter is one
\* higher, or, that being more than max_disappeared, the object is gone from
\* all three dictionaries.
MarkedOnce(obj_id) ==
    IF pre.disappeared[obj_id] + 1 > max_disappeared
    THEN /\ obj_id \notin DOMAIN objects
         /\ obj_id \notin DOMAIN centroids
         /\ obj_id \notin DOMAIN disappeared
    ELSE /\ obj_id \in DOMAIN objects
         /\ objects[obj_id] = pre.objects[obj_id]
         /\ centroids[obj_id] = pre.centroids[obj_id]
         /\ disappeared[obj_id] = pre.disappeared[obj_id] + 1

\* C21: every existing object that claims no detection in an update (every
\* object, when there are no detections) has its disappeared counter
\* incremented by exactly one and is removed with all its state as soon as
\* the counter exceeds max_disappeared; an update without detections
\* registers no object.
C21_UnclaimedAreMarked ==
    IsAnyCentroidUpdate =>
        /\ \A obj_id \in DOMAIN pre.objects :
              ClaimedNothing(obj_id) => MarkedOnce(obj_id)
        /\ Len(call.detections) = 0 => next_id = pre.next_id

\* C21 where the code does as the claim says: the update has no detections,
\* or the object's nearest detection is out of its reach or is left
\* unclaimed by every object.
C21_MarkedUnlessNearestTaken ==
    IsAnyCentroidUpdate =>
        /\ \A obj_id \in DOMAIN pre.objects :
              (/\ ClaimedNothing(obj_id)
               /\ \/ Len(call.detections) = 0
                  \/ \A o \in DOMAIN pre.objects :
                        NearestOnlyClaims(<< >>, 1)[o]
                            # row_argmin(pre, obj_id, call.detections))
              => MarkedOnce(obj_id)
        /\ Len(call.detections) = 0 => next_id = pre.next_id

\* What the code does with an object whose nearest detection another object
\* has claimed: it claims nothing and its counter is left as it was.
C21_NearestTakenNotMarked ==
    (IsAnyCentroidUpdate /\ Len(call.detections) > 0) =>
        \A obj_id \in DOMAIN pre.objects :
            (/\ ClaimedNothing(obj_id)
             /\ \E o \in DOMAIN pre.objects :
                   NearestOnlyClaims(<< >>, 1)[o]
                       = row_argmin(pre, obj_id, call.detections))
            => /\ obj_id \in DOMAIN objects
               /\ disappeared[obj_id] = pre.disappeared[obj_id]

\* An object has just been removed for having been absent for more than
\* max_disappeared updates: its counter stood at max_disappeared.
C21_Removed ==
    /\ IsAnyCentroidUpdate
    /\ \E obj_id \in DOMAIN pre.objects :
          /\ pre.disappeared[obj_id] = max_disappeared
          /\ obj_id \notin DOMAIN objects

\* An object is removed only when its counter stood at max_disappeared.
C21_RemovedOnlyAtLimit ==
    IsAnyCentroidUpdate =>
        \A obj_id \in DOMAIN pre.objects :
            obj_id \notin DOMAIN objects
                => pre.disappeared[obj_id] = max_disappeared

-----------------------------------------------------------------------------
(* Validation on the guard lines: claims C22-C23 *)

IsValidate == call.op = "validate_fencers_on_guard_lines"

\* Intersection over Union of two boxes is more than 1/2.
IoUAboveHalf(a, b) ==
    LET w == Min(a[3], b[3]) - Max(a[1], b[1])
        h == Min(a[4], b[4]) - Max(a[2], b[2])
        inter == IF w > 0 /\ h > 0 THEN w * h ELSE 0
        union == (a[3] - a[1]) * (a[4] - a[2]) + (b[3] - b[1]) * (b[4] - b[2])
                    - inter
    IN  union > 0 /\ 2 * inter > union

\* The detections the calibration classifies as left and as right in the
\* frame of the last validation.
Classified ==
    detect_on_guard_line(pre.guard_line_detector, call.current_detections)

\* Fencer id is locked and the detection classified for its side overlaps
\* its box with IoU > 1/2.
OnGuard(id, detection) ==
    /\ id \in DOMAIN pre.self.fencers
    /\ detection # None
    /\ IoUAboveHalf(pre.self.fencers[id].bbox, detection.bbox)

\* The two examples of the overlap test.
OverlapExamples ==
    /\ ~bboxes_overlap_significantly(<<0, 0, 10, 10>>, <<5, 5, 15, 15>>)
    /\ bboxes_overlap_significantly(<<0, 0, 10, 10>>, <<0, 0, 10, 10>>)

\* C22: validate_fencers_on_guard_lines reports fencer_1_on_guard exactly
\* when fencer 1 is locked and the detection classified as left has
\* IoU > 0.5 with its box, fencer_2_on_guard likewise with the detection
\* classified as right, and both_on_guard is their conjunction; the overlap
\* test is false for (0,0,10,10) and (5,5,15,15) and true for two identical
\* boxes.
C22_OnGuardIffOverlap ==
    /\ OverlapExamples
    /\ IsValidate =>
          /\ ret.fencer_1_on_guard <=> OnGuard(1, Classified.left)
          /\ ret.fencer_2_on_guard <=> OnGuard(2, Classified.right)
          /\ ret.both_on_guard <=> (ret.fencer_1_on_guard /\ ret.fencer_2_on_guard)

\* C22, amended: while both fencers are locked the report is as C22 says,
\* fencer_1_on_guard exactly when the detection classified as left has
\* IoU > 0.5 with fencer 1's box and fencer_2_on_guard likewise on the right;
\* as soon as one of the two is not locked both are reported false;
\* both_on_guard is their conjunction.
C22_OnGuardWhileBothLocked ==
    /\ OverlapExamples
    /\ IsValidate =>
          /\ ret.both_on_guard <=> (ret.fencer_1_on_guard /\ ret.fencer_2_on_guard)
          /\ IF DOMAIN pre.self.fencers = {1, 2}
             THEN /\ ret.fencer_1_on_guard <=> OnGuard(1, Classified.left)
                  /\ ret.fencer_2_on_guard <=> OnGuard(2, Classified.right)
             ELSE ~ret.fencer_1_on_guard /\ ~ret.fencer_2_on_guard

\* Both fencers are locked and found on their lines.
C22_WitnessBoth == IsValidate /\ ret.both_on_guard

\* Fencer 1 is compared with a left detection whose IoU is exactly 1/2.
C22_WitnessHalf ==
    /\ IsValidate
    /\ DOMAIN pre.self.fencers = {1, 2}
    /\ Classified.left = GuardLeftHalf
    /\ pre.self.fencers[1].bbox = GuardLeft.bbox
    /\ ~ret.fencer_1_on_guard
    /\ ret.fencer_2_on_guard

\* C23: validate_fencers_on_guard_lines changes nothing: the initialized
\* flag, the locked map with each fencer's bbox, centroid and counters, the
\* frame count and the calibration are after the call what they were before
\* it.
C23_ValidateMutatesNothing ==
    IsValidate =>
        /\ initialized = pre.self.initialized
        /\ fencers = pre.self.fencers
        /\ frame_count = pre.self.frame_count
        /\ guard_line_detector = pre.guard_line_detector

\* Locked fencers have been validated against a frame with a detection on
\* each line, and one of them was found on guard.
C23_Witness ==
    /\ IsValidate
    /\ pre.self.initialized
    /\ Classified.left # None
    /\ Classified.right # None
    /\ ret.fencer_1_on_guard

\* The early returns: nothing locked yet, and no detections.
C23_WitnessEarly ==
    /\ IsValidate
    /\ ~pre.self.initialized
    /\ Len(call.current_detections) > 0

-----------------------------------------------------------------------------
(* Invariants of the locked identities: claims C24-C26 *)

\* Box outer contains box inner.
Contains(outer, inner) ==
    /\ outer[1] <= inner[1]
    /\ outer[2] <= inner[2]
    /\ outer[3] >= inner[3]
    /\ outer[4] >= inner[4]

\* C24: every update of an initialized tracker returns initialized = true,
\* num_fencers equal to the number of fencers locked after the update's
\* evictions, and frame_box none exactly when that number is 0; a frame box
\* that is not none contains the bbox of every locked fencer.
C24_TrackingInfo ==
    IsTrackingUpdate =>
        /\ ret.info.initialized = TRUE
        /\ ret.info.num_fencers = Cardinality(DOMAIN fencers)
        /\ (ret.info.frame_box = None) <=> (Cardinality(DOMAIN fencers) = 0)
        /\ ret.info.frame_box # None =>
              \A id \in DOMAIN fencers :
                  Contains(ret.info.frame_box, fencers[id].bbox)

\* Both fencers are locked after a tracking update and framed together.
C24_Witness ==
    /\ IsTrackingUpdate
    /\ ret.info.num_fencers = 2
    /\ ret.info.frame_box # None
    /\ fencers[1].bbox # fencers[2].bbox

\* The update that evicts the last locked fencer.
C24_WitnessNone ==
    /\ IsTrackingUpdate
    /\ DOMAIN pre.fencers # {}
    /\ ret.info.num_fencers = 0
    /\ ret.info.frame_box = None

\* The update that evicts one fencer of two.
C24_WitnessOne ==
    /\ IsTrackingUpdate
    /\ DOMAIN pre.fencers = {1, 2}
    /\ ret.info.num_fencers = 1
    /\ ret.info.frame_box # None

\* The last update left both fencers locked: the lock itself, or a tracking
\* update after which both are still there.
BothLockedAfterUpdate ==
    /\ call.op = "update"
    /\ initialized
    /\ DOMAIN fencers = {1, 2}

\* C25: identity 1 stays the left competitor: at the lock and after every
\* later tracking update in which both fencers are locked, the centroid x of
\* fencer 1 is smaller than the centroid x of fencer 2.
C25_FencerOneIsLeft ==
    BothLockedAfterUpdate => fencers[1].centroid[1] < fencers[2].centroid[1]

\* C25 at the lock, where the code does as the claim says.
C25_LeftAtLock ==
    (BothLockedAfterUpdate /\ ~pre.initialized)
        => fencers[1].centroid[1] < fencers[2].centroid[1]

\* The ids of a returned track list are all different.
DistinctIds(tracks) ==
    \A k, l \in 1..Len(tracks) : tracks[k].id = tracks[l].id => k = l

\* C26: in every reachable state the locked map holds at most two fencers,
\* under the keys 1 and 2 only, each with its key as id; in every returned
\* track list a track with id 1 or 2 is a locked fencer, every other track
\* has an id >= 100, and no two tracks share an id.
C26_TwoIdentities ==
    /\ DOMAIN fencers \subseteq {1, 2}
    /\ \A id \in DOMAIN fencers : fencers[id].id = id
    /\ call.op = "update" =>
          /\ \A k \in 1..Len(ret.tracks) :
                IF ret.tracks[k].id \in {1, 2}
                THEN /\ ret.tracks[k].id \in DOMAIN fencers
                     /\ ret.tracks[k].bbox = fencers[ret.tracks[k].id].bbox
                     /\ ret.tracks[k].centroid
                            = fencers[ret.tracks[k].id].centroid
                ELSE ret.tracks[k].id >= 100
          /\ DistinctIds(ret.tracks)

\* A tracking update has returned both locked fencers and a provisional
\* track.
C26_Witness ==
    /\ IsTrackingUpdate
    /\ Len(ret.tracks) = 3
    /\ \E k \in 1..3 : ret.tracks[k].id = 1
    /\ \E k \in 1..3 : ret.tracks[k].id = 2
    /\ \E k \in 1..3 : ret.tracks[k].id >= 100

\* An update without a lock has returned provisional tracks only.
C26_WitnessProvisional ==
    /\ IsUninitializedUpdate
    /\ ~initialized
    /\ Len(ret.tracks) = 3

-----------------------------------------------------------------------------
(* The calibration of the guard lines: claims C27-C30 *)

\* The calculated and the adjusted x (times 28) of a line of calibration g.
CalculatedX(g, line_id) ==
    IF line_id = "left" THEN g.guard_line_left_x_calc
    ELSE IF line_id = "right" THEN g.guard_line_right_x_calc
    ELSE g.center_x_calc

AdjustedX(g, line_id) ==
    IF line_id = "left" THEN g.guard_line_left_x
    ELSE IF line_id = "right" THEN g.guard_line_right_x
    ELSE g.center_x

TiltOf(g, line_id) ==
    IF line_id = "left" THEN g.left_tilt
    ELSE IF line_id = "right" THEN g.right_tilt
    ELSE g.center_tilt

IsAdjust == call.op = "adjust_guard_line"

\* C27: after any sequence of adjust calls that follows the setting of the
\* region, each line's adjusted x is its calculated x plus the offset of the
\* most recent adjust call for that line (its calculated x when there was
\* none); so an adjust call with the offset the line already has leaves its
\* adjusted x as it was: offsets do not accumulate.
C27_AdjustFromCalculated ==
    /\ guard_line_detector.piste_roi # None =>
          \A line_id \in LineIds :
              val(AdjustedX(guard_line_detector, line_id))
                  = val(CalculatedX(guard_line_detector, line_id))
                      + 28 * (IF last_offset[line_id] = None THEN 0
                              ELSE val(last_offset[line_id]))
    /\ (/\ IsAdjust
        /\ call.line_id \in LineIds
        /\ pre.piste_roi # None
        /\ val(AdjustedX(pre, call.line_id))
              = val(CalculatedX(pre, call.line_id)) + 28 * call.offset_x)
       => AdjustedX(guard_line_detector, call.line_id)
              = AdjustedX(pre, call.line_id)

\* A line that stood at a non-zero offset has been adjusted with the same
\* offset again.
C27_Witness ==
    /\ IsAdjust
    /\ call.line_id \in LineIds
    /\ pre.piste_roi # None
    /\ call.offset_x # 0
    /\ val(AdjustedX(pre, call.line_id))
          = val(CalculatedX(pre, call.line_id)) + 28 * call.offset_x

\* A line that stood at a non-zero offset has been adjusted back to 0.
C27_WitnessBack ==
    /\ IsAdjust
    /\ call.line_id \in LineIds
    /\ pre.piste_roi # None
    /\ call.offset_x = 0
    /\ AdjustedX(pre, call.line_id) # CalculatedX(pre, call.line_id)

\* The calculated positions, and the adjusted positions with the tilts, of
\* a calibration.
CalculatedOf(g) ==
    <<g.guard_line_left_x_calc, g.center_x_calc, g.guard_line_right_x_calc>>

AdjustedOf(g) ==
    <<g.guard_line_left_x, g.center_x, g.guard_line_right_x,
      g.left_tilt, g.center_tilt, g.right_tilt>>

\* The last call set the region: set_roi, or the bout manager's signal with
\* a region.
RegionSet ==
    \/ call.op = "set_roi"
    \/ call.op = "signal_roi_selected" /\ call.roi # None

\* C28: once a region has been set, the calculated positions never change
\* under any later operation on the calibration, further region signals
\* included, and the adjusted positions and tilts change only through adjust
\* calls.
C28_CalculatedImmutable ==
    [][ guard_line_detector.piste_roi # None =>
          /\ CalculatedOf(guard_line_detector') = CalculatedOf(guard_line_detector)
          /\ AdjustedOf(guard_line_detector') # AdjustedOf(guard_line_detector)
                => call'.op = "adjust_guard_line" ]_vars

\* C28, amended: once a region has been set, the calculated positions change
\* only when the region is set again (set_roi, or a region signal that
\* carries a region); setting it again puts the adjusted positions back on
\* the calculated ones and the tilts back to 1; otherwise the adjusted
\* positions and tilts change only through adjust calls.
C28_ChangedOnlyBySettingRegion ==
    [][ guard_line_detector.piste_roi # None =>
          /\ CalculatedOf(guard_line_detector') # CalculatedOf(guard_line_detector)
                => RegionSet'
          /\ AdjustedOf(guard_line_detector') # AdjustedOf(guard_line_detector)
                => (call'.op = "adjust_guard_line" \/ RegionSet')
          /\ RegionSet' =>
                AdjustedOf(guard_line_detector')
                    = <<guard_line_detector'.guard_line_left_x_calc,
                        guard_line_detector'.center_x_calc,
                        guard_line_detector'.guard_line_right_x_calc,
                        1, 1, 1>> ]_vars

\* A region is set over another one whose left line had been moved.
C28_Witness ==
    /\ call.op = "set_roi"
    /\ pre.piste_roi # None
    /\ pre.piste_roi # call.roi
    /\ pre.guard_line_left_x # pre.guard_line_left_x_calc
    /\ guard_line_detector.guard_line_left_x
          = guard_line_detector.guard_line_left_x_calc

\* The bout manager is signalled a region while the calibration holds
\* another one.
C28_WitnessSignal ==
    /\ call.op = "signal_roi_selected"
    /\ call.roi # None
    /\ pre.roi_selected
    /\ guard_line_detector.piste_roi = call.roi
    /\ last_offset = no_offsets

\* C29: after set_roi(roi) with x1 < x2, pixels_per_meter is (x2 - x1) / 14,
\* the calculated left, center and right x are x1 plus 5/14, 7/14 and 9/14
\* of the width, hence x1 < left < center < right < x2; the adjusted
\* positions are the calculated ones and the three tilts are 1.  (All
\* positions are kept times 28.)
C29_SetRegion ==
    (call.op = "set_roi" /\ call.roi[1] < call.roi[3]) =>
        LET g == guard_line_detector
            x1 == call.roi[1]
            x2 == call.roi[3]
            left == val(g.guard_line_left_x_calc)
            center == val(g.center_x_calc)
            right == val(g.guard_line_right_x_calc)
        IN  /\ g.piste_roi = call.roi
            /\ 14 * val(g.pixels_per_meter) = 28 * (x2 - x1)
            /\ 14 * left = 28 * (14 * x1 + 5 * (x2 - x1))
            /\ 14 * center = 28 * (14 * x1 + 7 * (x2 - x1))
            /\ 14 * right = 28 * (14 * x1 + 9 * (x2 - x1))
            /\ 28 * x1 < left /\ left < center
            /\ center < right /\ right < 28 * x2
            /\ g.guard_line_left_x = g.guard_line_left_x_calc
            /\ g.center_x = g.center_x_calc
            /\ g.guard_line_right_x = g.guard_line_right_x_calc
            /\ g.left_tilt = 1 /\ g.center_tilt = 1 /\ g.right_tilt = 1

\* A region that does not start at x = 0 has been set over a calibration
\* with a moved and tilted line.
C29_Witness ==
    /\ call.op = "set_roi"
    /\ call.roi[1] > 0
    /\ pre.piste_roi # None
    /\ pre.guard_line_right_x # pre.guard_line_right_x_calc
    /\ pre.right_tilt # 1

IsClassify == call.op = "detect_on_guard_line"

\* Detection d qualifies for a line of the calibration the last
\* classification was made with: its feet x (the right edge of its box) is
\* within the region's x-bounds and within the tolerance of the line's
\* adjusted x.
FeetDistance(d, line_id) ==
    Abs(28 * d.bbox[3] - val(AdjustedX(pre, line_id)))

Qualifies(d, line_id) ==
    /\ pre.piste_roi # None
    /\ d.bbox[3] >= pre.piste_roi[1]
    /\ d.bbox[3] <= pre.piste_roi[3]
    /\ FeetDistance(d, line_id) <= 28 * pre.guard_line_tolerance

\* The detections of the classified frame that count for each line.
CountedLeft ==
    { i \in 1..Len(call.detections) : Qualifies(call.detections[i], "left") }

CountedRight ==
    { i \in 1..Len(call.detections) :
        /\ Qualifies(call.detections[i], "right")
        /\ ~Qualifies(call.detections[i], "left") }

\* chosen is none when no detection counts for the line, and else one of
\* those that count, at the smallest distance to the line.
ClosestOf(chosen, counted, line_id) ==
    IF counted = {} THEN chosen = None
    ELSE \E i \in counted :
            /\ chosen = call.detections[i]
            /\ \A j \in counted :
                  FeetDistance(call.detections[i], line_id)
                      <= FeetDistance(call.detections[j], line_id)

\* C30: detect_on_guard_line: a detection qualifies for a line only if its
\* feet x is within the region's x-bounds and within the tolerance of the
\* line's adjusted x; left is none iff no detection qualifies for the left
\* line and else a qualifying detection at the smallest distance to it;
\* right likewise among the detections that did not qualify for left; a
\* detection within the tolerance of both lines counts as left only, so left
\* and right are never the same detection and on_line lists each detection
\* at most once.
C30_Classify ==
    IsClassify =>
        /\ ClosestOf(ret.left, CountedLeft, "left")
        /\ ClosestOf(ret.right, CountedRight, "right")
        /\ (ret.left # None /\ ret.right # None) => ret.left # ret.right
        /\ \A k \in 1..Len(ret.on_line) :
              \E i \in CountedLeft \cup CountedRight :
                  ret.on_line[k] = call.detections[i]
        /\ \A i \in CountedLeft \cup CountedRight :
              \E k \in 1..Len(ret.on_line) :
                  ret.on_line[k] = call.detections[i]
        /\ \A k, l \in 1..Len(ret.on_line) :
              ret.on_line[k] = ret.on_line[l] => k = l

\* A detection within the tolerance of both lines is classified together
\* with one on the right line only.
C30_Witness ==
    /\ IsClassify
    /\ Len(call.detections) = 2
    /\ \E i \in 1..2 :
          /\ Qualifies(call.detections[i], "left")
          /\ Qualifies(call.detections[i], "right")
          /\ ret.left = call.detections[i]
    /\ ret.right # None

\* Two detections count for the left line and the second of the list is the
\* closer one.
C30_WitnessClosest ==
    /\ IsClassify
    /\ CountedLeft = {1, 2}
    /\ ret.left = call.detections[2]
    /\ FeetDistance(call.detections[2], "left")
          < FeetDistance(call.detections[1], "left")

\* A detection within the tolerance of a line is left out for having its
\* feet outside the region.
C30_WitnessOutside ==
    /\ IsClassify
    /\ pre.piste_roi # None
    /\ Len(call.detections) = 1
    /\ FeetDistance(call.detections[1], "right") <= 28 * pre.guard_line_tolerance
    /\ call.detections[1].bbox[3] > pre.piste_roi[3]
    /\ ret.right = None

-----------------------------------------------------------------------------
(* The frame loop and the region it shares with the web server:
   claims C31-C33 *)

IsFilterQuery == call.op = "should_apply_roi_filter"

IsFrame == call.op = "frame"

\* C31: should_apply_roi_filter returns true exactly when the phase is
\* INITIALIZING or BOUT_ACTIVE; in WAITING and in BOUT_FINISHED it returns
\* false.
C31_RoiFilterPolicy ==
    IsFilterQuery =>
        /\ ret = TRUE <=> pre.phase \in {INITIALIZING, BOUT_ACTIVE}
        /\ pre.phase \in {WAITING, BOUT_FINISHED} => ret = FALSE
        /\ self_bm = pre

\* The filter is asked for during a bout, and after the bout has finished.
C31_Witness ==
    /\ IsFilterQuery
    /\ pre.phase = BOUT_ACTIVE
    /\ ret = TRUE

C31_WitnessFinished ==
    /\ IsFilterQuery
    /\ pre.phase = BOUT_FINISHED
    /\ ret = FALSE

\* The frame loop hands the detector the filter of the phase the iteration
\* starts in.
C31_FrameFilter ==
    IsFrame =>
        (call.apply_roi_filter <=> pre.phase \in {INITIALIZING, BOUT_ACTIVE})

C31_WitnessFrame ==
    /\ IsFrame
    /\ call.apply_roi_filter
    /\ pre.phase = INITIALIZING

\* C32: the region-confirmed signal is one-shot: a frame that reads a
\* region calls signal_roi_selected (which sets roi_selected and forwards
\* the region read to the calibration) when no call was made since the start
\* or since the last frame that read the region as absent, and no frame
\* calls it otherwise; so at most one call is made between two absent reads.
C32_SignalOneShot ==
    /\ signals_since_absent <= 1
    /\ IsFrame =>
          /\ ret.signal_roi_selected
                <=> (call.current_roi # None /\ signals_since_absent = 1
                        /\ ~pre.roi_signaled)
          /\ call.current_roi # None => signals_since_absent = 1
          /\ ret.signal_roi_selected =>
                /\ ret.calibration = set_roi(pre.guard_line_detector,
                                             call.current_roi)
                /\ ret.roi_selected
          /\ ~ret.signal_roi_selected =>
                /\ ret.calibration = pre.guard_line_detector
                /\ ret.roi_selected = pre.roi_selected

\* A frame signals a region after an earlier frame signalled one and a
\* frame in between read the region as absent.
C32_Witness ==
    /\ IsFrame
    /\ ret.signal_roi_selected
    /\ pre.guard_line_detector.piste_roi # None
    /\ frame_count = 3

\* A frame reads a region other than the one signalled and does not signal
\* it.
C32_WitnessChanged ==
    /\ IsFrame
    /\ ~ret.signal_roi_selected
    /\ call.current_roi # None
    /\ call.current_roi # guard_line_detector.piste_roi

\* The region the web server has saved is r, no write of it is going on,
\* and the loop has frames to run.
RegionSaved(r) ==
    /\ ROI_FILE = FileWith(r)
    /\ frame_count < MaxRegionFrames

\* C33: eventual consistency of the region: when the web server has saved a
\* region and leaves it unchanged while the frame loop runs, the
\* calibration's roi becomes that region.
C33_RegionEventuallyConsistent ==
    \A r \in Rois :
        RegionSaved(r) ~>
            (ROI_FILE # FileWith(r) \/ guard_line_detector.piste_roi = r)

\* The same for a region saved when none was signalled since the last
\* absent read: the next frame signals it.
C33_ConsistentWhenNotSignalled ==
    \A r \in Rois :
        (RegionSaved(r) /\ ~roi_signaled) ~>
            (ROI_FILE # FileWith(r) \/ guard_line_detector.piste_roi = r)

\* Once a region has been signalled, no frame that reads a region changes
\* the calibration's roi: a region saved over the signalled one is never
\* forwarded while it stays in place.
C33_StaleRegionStays ==
    [][(roi_signaled /\ IsFrame' /\ call'.current_roi # None)
          => guard_line_detector'.piste_roi = guard_line_detector.piste_roi]_vars

-----------------------------------------------------------------------------
(* The counters of the locked fencers: claim C34 *)

\* Fencer id, locked before the last tracking update, got an accepted update
\* in it: a detection within max_tracking_distance was proposed to it and
\* was not rejected by the anti-overlap rule.
GotAcceptedUpdate(id) ==
    IF DOMAIN pre.fencers = {1, 2}
    THEN IF id = 1 THEN Accepted1 ELSE Proposed2 # 0 /\ ~Rejected2
    ELSE NearestInReach(pre.fencers[id].centroid, AllDetections) # 0

\* Fencer id got a proposal that the anti-overlap rule rejected.
GotRejectedUpdate(id) ==
    IF id = 1 THEN Rejected1 ELSE Rejected2

\* C34: in every tracking update, a locked fencer with no accepted update
\* (no detection within max_tracking_distance, or its proposed update
\* rejected by the anti-overlap rule) has frames_since_detection increased by
\* exactly 1 and frames_alive increased by exactly 1; a fencer with an
\* accepted update has frames_since_detection reset to 0 and frames_alive
\* increased by exactly 1.
C34_CountersStepByOne ==
    IsTrackingUpdate =>
        \A id \in DOMAIN pre.fencers \cap DOMAIN fencers :
            /\ fencers[id].frames_alive = pre.fencers[id].frames_alive + 1
            /\ fencers[id].frames_since_detection =
                  IF GotAcceptedUpdate(id) THEN 0
                  ELSE pre.fencers[id].frames_since_detection + 1

\* What the code does: the counters are as stated except that a rejected
\* proposal raises frames_since_detection by 2 (line 186 and again line 207).
C34_RejectedAddsTwo ==
    IsTrackingUpdate =>
        \A id \in DOMAIN pre.fencers \cap DOMAIN fencers :
            /\ fencers[id].frames_alive = pre.fencers[id].frames_alive + 1
            /\ fencers[id].frames_since_detection =
                  IF GotAcceptedUpdate(id) THEN 0
                  ELSE IF GotRejectedUpdate(id)
                       THEN pre.fencers[id].frames_since_detection + 2
                       ELSE pre.fencers[id].frames_since_detection + 1

\* A fencer is left without a detection in reach while the other one moves.
C34_WitnessMissing ==
    /\ IsTrackingUpdate
    /\ DOMAIN pre.fencers = {1, 2}
    /\ DOMAIN fencers = {1, 2}
    /\ GotAcceptedUpdate(1)
    /\ Proposed2 = 0
    /\ fencers[2].frames_since_detection = 1

-----------------------------------------------------------------------------
(* The start of the bout in the frame loop: claims C35-C36 *)

\* The last frame took the bout manager into BOUT_ACTIVE.
BecameActive ==
    /\ IsFrame
    /\ pre.phase # BOUT_ACTIVE
    /\ phase = BOUT_ACTIVE

\* C35: in the frame loop, whenever the phase becomes BOUT_ACTIVE the
\* tracker holds exactly two locked fencers, ids 1 and 2, at that frame.
C35_ActiveWithTwoLocked ==
    BecameActive => (initialized /\ DOMAIN fencers = {1, 2})

\* What holds: the tracker has locked at some time, and holds no other ids
\* than 1 and 2.
C35_ActiveAfterLock ==
    BecameActive => (initialized /\ DOMAIN fencers \subseteq {1, 2})

\* The bout starts with both fencers locked.
C35_WitnessTwo ==
    /\ BecameActive
    /\ DOMAIN fencers = {1, 2}

\* The region is saved, for good, while the frames to come include
\* MaxStartFrames - StartSettleFrames frames that show the two fencers.
RegionStaysSelected ==
    /\ ROI_FILE = FileWith(BoutRoi)
    /\ frame_count <= StartSettleFrames

\* The initialization timed out and the region has not been signalled since:
\* the bout manager waits for a region while the loop holds the region as
\* signalled.
WaitsAfterTimeout ==
    /\ phase = WAITING
    /\ ~roi_selected
    /\ roi_signaled

C36_StartsUnlessTimeout ==
    RegionStaysSelected ~> (phase = BOUT_ACTIVE \/ WaitsAfterTimeout)

\* After a timeout, as long as the region file keeps its region, no frame
\* leaves WAITING.
C36_WaitsWhileRegionStays ==
    [][(WaitsAfterTimeout /\ ROI_FILE = FileWith(BoutRoi)
            /\ ROI_FILE' = ROI_FILE)
        => WaitsAfterTimeout']_vars

\* The loop waits after a timeout with both fencers locked.
C36_WitnessWaitsLocked ==
    /\ WaitsAfterTimeout
    /\ ROI_FILE = FileWith(BoutRoi)
    /\ DOMAIN fencers = {1, 2}
    /\ frame_count = MaxStartFrames

-----------------------------------------------------------------------------
(* The distance between the locked fencers: claim C37 *)

\* Both fencers are locked.
BothLocked == initialized /\ DOMAIN fencers = {1, 2}

\* The distance on x between the centers of the two locked fencers, in
\* half pixels as the centroids are.
separation_x2 == Abs(fencers[1].centroid[1] - fencers[2].centroid[1])

\* C37: at the lock and after every tracking update, whenever both fencers
\* are locked their centroids are at least 50 px apart horizontally.
C37_LockedFencersApart ==
    BothLocked => separation_x2 >= 2 * 50

\* A tracking update has moved a fencer to exactly 50 px from the other.
C37_WitnessAtFifty ==
    /\ IsTrackingUpdate
    /\ BothLocked
    /\ fencers[1].centroid # pre.fencers[1].centroid
    /\ separation_x2 = 2 * 50

\* A tracking update has rejected a detection that would have brought
\* fencer 1 closer than that, and both are still locked.
C37_WitnessRejected ==
    /\ GotRejectedUpdate(1)
    /\ BothLocked

-----------------------------------------------------------------------------
(* The ids of CentroidTracker: claim C38 *)

\* The ids the last update registered.
RegisteredIds == DOMAIN objects \ DOMAIN pre.objects

\* C38: CentroidTracker ids are issued from a strictly increasing counter
\* starting at 1: an id is never given to two different registrations, even
\* after the earlier object was evicted (an update registers as many ids as
\* it advances next_id by, none of them below the next_id it found, under
\* which every id issued before lies), every live id is smaller than
\* next_id, and the bbox, centroid and disappeared maps have the same key
\* set.
C38_IdsIssuedOnce ==
    /\ next_id >= 1
    /\ \A obj_id \in DOMAIN objects : 1 <= obj_id /\ obj_id < next_id
    /\ DOMAIN centroids = DOMAIN objects
    /\ DOMAIN disappeared = DOMAIN objects
    /\ IsAnyCentroidUpdate =>
          /\ \A obj_id \in DOMAIN pre.objects : obj_id < pre.next_id
          /\ next_id >= pre.next_id
          /\ RegisteredIds = pre.next_id .. (next_id - 1)

\* An update registers an object after an earlier one was evicted.
C38_WitnessAfterEviction ==
    /\ IsAnyCentroidUpdate
    /\ RegisteredIds # {}
    /\ \E obj_id \in 1 .. (pre.next_id - 1) : obj_id \notin DOMAIN pre.objects

\* An update registers two objects.
C38_WitnessTwoRegistered ==
    /\ IsAnyCentroidUpdate
    /\ Cardinality(RegisteredIds) = 2

-----------------------------------------------------------------------------
(* The convergence of the framing: claim C39 *)

\* The last call was smooth_frame_box with a box, over a stored baseline.
IsSmoothOverBaseline ==
    /\ IsSmooth
    /\ call.new_frame_box # None
    /\ pre.last_frame_box # None

\* The last call moved every coordinate that was off the target toward it,
\* not past it, and left the others on it.
MovedTowardTarget ==
    \A i \in 1..4 :
        LET target == call.new_frame_box[i]
            last   == pre.last_frame_box[i]
        IN  /\ Min(last, target) <= ret[i]
            /\ ret[i] <= Max(last, target)
            /\ last # target => ret[i] # last
            /\ last_frame_box[i] = ret[i]

\* smooth_frame_box has been called with box and nothing has cleared the
\* baseline since.
SmoothingToward(box) ==
    /\ smooth_target = box
    /\ last_frame_box # None

\* C39: if smooth_frame_box is called repeatedly with the same integer box
\* and no reset happens in between, every call moves each coordinate toward
\* the target without overshooting it (and keeps a box that is on the
\* target there), and the returned box equals the target after finitely
\* many calls: as long as the calls go on with that box, the baseline
\* reaches it.
C39_SmoothingConverges ==
    /\ [](IsSmoothOverBaseline => MovedTowardTarget)
    /\ \A box \in SmoothBoxes :
          SmoothingToward(box) ~>
              (last_frame_box = box \/ smooth_target # box)

\* A call has brought the baseline onto a target that was more than
\* max_frame_velocity away two calls before.
C39_WitnessReached ==
    /\ IsSmoothOverBaseline
    /\ ret = call.new_frame_box
    /\ pre.last_frame_box # call.new_frame_box
    /\ \E box \in SmoothBoxes, i \in 1..4 :
          /\ Abs(box[i] - call.new_frame_box[i]) > 2 * max_frame_velocity
          /\ Abs(pre.last_frame_box[i] - box[i]) = 2 * max_frame_velocity

\* A call with the box the baseline is on returns that box.
C39_WitnessStays ==
    /\ IsSmoothOverBaseline
    /\ pre.last_frame_box = call.new_frame_box
    /\ ret = call.new_frame_box

-----------------------------------------------------------------------------
(* What adjust_guard_line leaves alone: claim C40 *)

\* The adjusted x and the tilt of a line of detector gld.
LineOf(gld, line_id) ==
    IF line_id = "left" THEN <<gld.guard_line_left_x, gld.left_tilt>>
    ELSE IF line_id = "right" THEN <<gld.guard_line_right_x, gld.right_tilt>>
    ELSE <<gld.center_x, gld.center_tilt>>

\* The fields of detector gld that belong to no line's adjustment.
CalibrationOf(gld) ==
    << gld.piste_roi, gld.pixels_per_meter, gld.guard_line_left_x_calc,
       gld.guard_line_right_x_calc, gld.center_x_calc,
       gld.guard_line_tolerance >>

\* C40: adjust on one line changes only that line's adjusted x and tilt: the
\* two other lines' adjusted x and tilt, the roi, the calculated positions,
\* pixels_per_meter and the tolerance are unchanged; an adjust call made
\* before any region has been set changes nothing at all.
C40_AdjustTouchesOneLine ==
    IsAdjust =>
        /\ \A line_id \in LineIds \ {call.line_id} :
              LineOf(guard_line_detector, line_id) = LineOf(pre, line_id)
        /\ CalibrationOf(guard_line_detector) = CalibrationOf(pre)
        /\ pre.piste_roi = None => guard_line_detector = pre

\* An adjust call has moved and tilted the left line while the right line
\* was off its calculated position with another tilt.
C40_Witness ==
    /\ IsAdjust
    /\ call.line_id = "left"
    /\ LineOf(guard_line_detector, "left") # LineOf(pre, "left")
    /\ pre.guard_line_right_x # pre.guard_line_right_x_calc
    /\ pre.right_tilt # call.tilt

\* An adjust call with an offset was made before any region was set.
C40_WitnessNoRegion ==
    /\ IsAdjust
    /\ call.line_id \in LineIds
    /\ call.offset_x # 0
    /\ pre.piste_roi = None

====
